---- MODULE Spec2Model ----
(***************************************************************************)
(* Model of src/gas.ts: the ICS importer for Google Calendar.              *)
(*                                                                         *)
(* Strings are sequences of UTF-16 code units, so that trim, startsWith,   *)
(* substring, toLowerCase and the key formatting are computed code unit by *)
(* code unit as the JavaScript does.  A code unit is written as a          *)
(* one-character string when it is printable ASCII, tab, line feed, form   *)
(* feed or carriage return, and as "U+" with four hexadecimal digits       *)
(* otherwise ("U+3000", "U+00C9"; a character outside the Basic            *)
(* Multilingual Plane is its two surrogates).  A Date is a UTC day number  *)
(* (days since 1970-01-01) with the milliseconds of that day, or the       *)
(* Invalid Date.                                                           *)
(***************************************************************************)
EXTENDS Integers, Sequences, FiniteSets, TLC

(* ------------------------------------------------------------------ *)
(* Bounds of the model                                                 *)
(* ------------------------------------------------------------------ *)
MaxLines == 6
MaxFold == 2
MaxEvents == 3
MaxLedgerRows == 2
MaxRuns == 2
MaxFaults == 2
MaxBatch == 3

(* ------------------------------------------------------------------ *)
(* Strings                                                             *)
(* ------------------------------------------------------------------ *)
DigitChars == <<"0", "1", "2", "3", "4", "5", "6", "7", "8", "9">>
HexDigits == <<"0", "1", "2", "3", "4", "5", "6", "7", "8", "9", "A", "B", "C", "D", "E", "F">>

\* The characters of the code units 32 to 126 in order (the grave accent,
\* which a string literal cannot hold, is written as its code).
Printable ==
    <<" ", "!", "\"", "#", "$", "%", "&", "'", "(", ")", "*", "+", ",", "-", ".", "/",
      "0", "1", "2", "3", "4", "5", "6", "7", "8", "9", ":", ";", "<", "=", ">", "?",
      "@", "A", "B", "C", "D", "E", "F", "G", "H", "I", "J", "K", "L", "M", "N", "O",
      "P", "Q", "R", "S", "T", "U", "V", "W", "X", "Y", "Z", "[", "\\", "]", "^", "_",
      "U+0060", "a", "b", "c", "d", "e", "f", "g", "h", "i", "j", "k", "l", "m", "n", "o",
      "p", "q", "r", "s", "t", "u", "v", "w", "x", "y", "z", "{", "|", "}", "~">>

AsciiCode ==
    [c \in {Printable[k] : k \in 1..95} |-> 31 + (CHOOSE k \in 1..95 : Printable[k] = c)]

\* The character of a UTF-16 code unit n (0..65535).
FromCodeUnit(n) ==
    IF n >= 32 /\ n <= 126 THEN Printable[n - 31]
    ELSE IF n = 9 THEN "\t"
    ELSE IF n = 10 THEN "\n"
    ELSE IF n = 12 THEN "\f"
    ELSE IF n = 13 THEN "\r"
    ELSE "U+" \o HexDigits[((n \div 4096) % 16) + 1] \o HexDigits[((n \div 256) % 16) + 1]
              \o HexDigits[((n \div 16) % 16) + 1] \o HexDigits[(n % 16) + 1]

\* The code unit of a character.
CodeUnit(c) ==
    IF Len(c) = 1
    THEN (IF c \in DOMAIN AsciiCode THEN AsciiCode[c]
          ELSE IF c = "\t" THEN 9
          ELSE IF c = "\n" THEN 10
          ELSE IF c = "\f" THEN 12
          ELSE 13)
    ELSE ((CHOOSE k \in 1..16 : HexDigits[k] = SubSeq(c, 3, 3)) - 1) * 4096
         + ((CHOOSE k \in 1..16 : HexDigits[k] = SubSeq(c, 4, 4)) - 1) * 256
         + ((CHOOSE k \in 1..16 : HexDigits[k] = SubSeq(c, 5, 5)) - 1) * 16
         + ((CHOOSE k \in 1..16 : HexDigits[k] = SubSeq(c, 6, 6)) - 1)

\* WhiteSpace and LineTerminator of ECMAScript: TAB, LF, VT, FF, CR, SP,
\* NBSP, the other space separators (U+1680, U+2000 to U+200A, U+202F,
\* U+205F, U+3000), LS, PS and ZWNBSP (U+FEFF).
WhiteSpaceChars ==
    {FromCodeUnit(n) : n \in {9, 10, 11, 12, 13, 32, 160, 5760, 8232, 8233, 8239, 8287,
                              12288, 65279} \cup (8192..8202)}

IsWhitespace(c) == c \in WhiteSpaceChars
IsDigit(c) == \E k \in 1..10 : DigitChars[k] = c
DigitValue(c) == (CHOOSE k \in 1..10 : DigitChars[k] = c) - 1

Min(a, b) == IF a < b THEN a ELSE b
Max(a, b) == IF a > b THEN a ELSE b

\* String.prototype.substring(a, b), 0-based, end exclusive, arguments clamped.
Substring(s, a, b) ==
    LET lo == Min(Max(Min(a, b), 0), Len(s))
        hi == Min(Max(Max(a, b), 0), Len(s))
    IN  SubSeq(s, lo + 1, hi)

\* String.prototype.substring(a): to the end of the string.
SubstringFrom(s, a) == Substring(s, a, Len(s))

StartsWith(s, p) == Len(s) >= Len(p) /\ SubSeq(s, 1, Len(p)) = p
EndsWith(s, p) == Len(s) >= Len(p) /\ SubSeq(s, Len(s) - Len(p) + 1, Len(s)) = p

RECURSIVE TrimStart(_)
TrimStart(s) ==
    IF s # <<>> /\ IsWhitespace(Head(s)) THEN TrimStart(Tail(s)) ELSE s

RECURSIVE TrimEnd(_)
TrimEnd(s) ==
    IF s # <<>> /\ IsWhitespace(s[Len(s)]) THEN TrimEnd(SubSeq(s, 1, Len(s) - 1)) ELSE s

\* String.prototype.trim()
Trim(s) == TrimEnd(TrimStart(s))

(* ------------------------------------------------------------------ *)
(* String.prototype.toLowerCase: the lower case mapping of Unicode     *)
(* (version 17.0), on code points                                      *)
(* ------------------------------------------------------------------ *)
\* The code points with a lower case of one code point, as runs
\* <<first, last, step, delta>>: first, first + step, ... last map to
\* themselves plus delta.
LowerRuns ==
    << <<65, 90, 1, 32>>, <<192, 214, 1, 32>>, <<216, 222, 1, 32>>, <<256, 302, 2, 1>>,
       <<306, 310, 2, 1>>, <<313, 327, 2, 1>>, <<330, 374, 2, 1>>, <<376, 376, 1, -121>>,
       <<377, 381, 2, 1>>, <<385, 385, 1, 210>>, <<386, 388, 2, 1>>, <<390, 390, 1, 206>>,
       <<391, 391, 1, 1>>, <<393, 394, 1, 205>>, <<395, 395, 1, 1>>, <<398, 398, 1, 79>>,
       <<399, 399, 1, 202>>, <<400, 400, 1, 203>>, <<401, 401, 1, 1>>, <<403, 403, 1, 205>>,
       <<404, 404, 1, 207>>, <<406, 406, 1, 211>>, <<407, 407, 1, 209>>, <<408, 408, 1, 1>>,
       <<412, 412, 1, 211>>, <<413, 413, 1, 213>>, <<415, 415, 1, 214>>, <<416, 420, 2, 1>>,
       <<422, 422, 1, 218>>, <<423, 423, 1, 1>>, <<425, 425, 1, 218>>, <<428, 428, 1, 1>>,
       <<430, 430, 1, 218>>, <<431, 431, 1, 1>>, <<433, 434, 1, 217>>, <<435, 437, 2, 1>>,
       <<439, 439, 1, 219>>, <<440, 440, 1, 1>>, <<444, 444, 1, 1>>, <<452, 452, 1, 2>>,
       <<453, 453, 1, 1>>, <<455, 455, 1, 2>>, <<456, 456, 1, 1>>, <<458, 458, 1, 2>>,
       <<459, 475, 2, 1>>, <<478, 494, 2, 1>>, <<497, 497, 1, 2>>, <<498, 500, 2, 1>>,
       <<502, 502, 1, -97>>, <<503, 503, 1, -56>>, <<504, 542, 2, 1>>, <<544, 544, 1, -130>>,
       <<546, 562, 2, 1>>, <<570, 570, 1, 10795>>, <<571, 571, 1, 1>>, <<573, 573, 1, -163>>,
       <<574, 574, 1, 10792>>, <<577, 577, 1, 1>>, <<579, 579, 1, -195>>, <<580, 580, 1, 69>>,
       <<581, 581, 1, 71>>, <<582, 590, 2, 1>>, <<880, 882, 2, 1>>, <<886, 886, 1, 1>>,
       <<895, 895, 1, 116>>, <<902, 902, 1, 38>>, <<904, 906, 1, 37>>, <<908, 908, 1, 64>>,
       <<910, 911, 1, 63>>, <<913, 929, 1, 32>>, <<932, 939, 1, 32>>, <<975, 975, 1, 8>>,
       <<984, 1006, 2, 1>>, <<1012, 1012, 1, -60>>, <<1015, 1015, 1, 1>>,
       <<1017, 1017, 1, -7>>, <<1018, 1018, 1, 1>>, <<1021, 1023, 1, -130>>,
       <<1024, 1039, 1, 80>>, <<1040, 1071, 1, 32>>, <<1120, 1152, 2, 1>>,
       <<1162, 1214, 2, 1>>, <<1216, 1216, 1, 15>>, <<1217, 1229, 2, 1>>, <<1232, 1326, 2, 1>>,
       <<1329, 1366, 1, 48>>, <<4256, 4293, 1, 7264>>, <<4295, 4295, 1, 7264>>,
       <<4301, 4301, 1, 7264>>, <<5024, 5103, 1, 38864>>, <<5104, 5109, 1, 8>>,
       <<7305, 7305, 1, 1>>, <<7312, 7354, 1, -3008>>, <<7357, 7359, 1, -3008>>,
       <<7680, 7828, 2, 1>>, <<7838, 7838, 1, -7615>>, <<7840, 7934, 2, 1>>,
       <<7944, 7951, 1, -8>>, <<7960, 7965, 1, -8>>, <<7976, 7983, 1, -8>>,
       <<7992, 7999, 1, -8>>, <<8008, 8013, 1, -8>>, <<8025, 8031, 2, -8>>,
       <<8040, 8047, 1, -8>>, <<8072, 8079, 1, -8>>, <<8088, 8095, 1, -8>>,
       <<8104, 8111, 1, -8>>, <<8120, 8121, 1, -8>>, <<8122, 8123, 1, -74>>,
       <<8124, 8124, 1, -9>>, <<8136, 8139, 1, -86>>, <<8140, 8140, 1, -9>>,
       <<8152, 8153, 1, -8>>, <<8154, 8155, 1, -100>>, <<8168, 8169, 1, -8>>,
       <<8170, 8171, 1, -112>>, <<8172, 8172, 1, -7>>, <<8184, 8185, 1, -128>>,
       <<8186, 8187, 1, -126>>, <<8188, 8188, 1, -9>>, <<8486, 8486, 1, -7517>>,
       <<8490, 8490, 1, -8383>>, <<8491, 8491, 1, -8262>>, <<8498, 8498, 1, 28>>,
       <<8544, 8559, 1, 16>>, <<8579, 8579, 1, 1>>, <<9398, 9423, 1, 26>>,
       <<11264, 11311, 1, 48>>, <<11360, 11360, 1, 1>>, <<11362, 11362, 1, -10743>>,
       <<11363, 11363, 1, -3814>>, <<11364, 11364, 1, -10727>>, <<11367, 11371, 2, 1>>,
       <<11373, 11373, 1, -10780>>, <<11374, 11374, 1, -10749>>, <<11375, 11375, 1, -10783>>,
       <<11376, 11376, 1, -10782>>, <<11378, 11378, 1, 1>>, <<11381, 11381, 1, 1>>,
       <<11390, 11391, 1, -10815>>, <<11392, 11490, 2, 1>>, <<11499, 11501, 2, 1>>,
       <<11506, 11506, 1, 1>>, <<42560, 42604, 2, 1>>, <<42624, 42650, 2, 1>>,
       <<42786, 42798, 2, 1>>, <<42802, 42862, 2, 1>>, <<42873, 42875, 2, 1>>,
       <<42877, 42877, 1, -35332>>, <<42878, 42886, 2, 1>>, <<42891, 42891, 1, 1>>,
       <<42893, 42893, 1, -42280>>, <<42896, 42898, 2, 1>>, <<42902, 42920, 2, 1>>,
       <<42922, 42922, 1, -42308>>, <<42923, 42923, 1, -42319>>, <<42924, 42924, 1, -42315>>,
       <<42925, 42925, 1, -42305>>, <<42926, 42926, 1, -42308>>, <<42928, 42928, 1, -42258>>,
       <<42929, 42929, 1, -42282>>, <<42930, 42930, 1, -42261>>, <<42931, 42931, 1, 928>>,
       <<42932, 42946, 2, 1>>, <<42948, 42948, 1, -48>>, <<42949, 42949, 1, -42307>>,
       <<42950, 42950, 1, -35384>>, <<42951, 42953, 2, 1>>, <<42955, 42955, 1, -42343>>,
       <<42956, 42970, 2, 1>>, <<42972, 42972, 1, -42561>>, <<42997, 42997, 1, 1>>,
       <<65313, 65338, 1, 32>>, <<66560, 66599, 1, 40>>, <<66736, 66771, 1, 40>>,
       <<66928, 66938, 1, 39>>, <<66940, 66954, 1, 39>>, <<66956, 66962, 1, 39>>,
       <<66964, 66965, 1, 39>>, <<68736, 68786, 1, 64>>, <<68944, 68965, 1, 32>>,
       <<71840, 71871, 1, 32>>, <<93760, 93791, 1, 32>>, <<93856, 93880, 1, 27>>,
       <<125184, 125217, 1, 34>> >>

\* The cased letters that are not case-ignorable, as ranges <<first, last>>.
CasedRanges ==
    << <<65, 90>>, <<97, 122>>, <<170, 170>>, <<181, 181>>, <<186, 186>>, <<192, 214>>,
       <<216, 246>>, <<248, 442>>, <<444, 447>>, <<452, 659>>, <<662, 687>>, <<880, 883>>,
       <<886, 887>>, <<891, 893>>, <<895, 895>>, <<902, 902>>, <<904, 906>>, <<908, 908>>,
       <<910, 929>>, <<931, 1013>>, <<1015, 1153>>, <<1162, 1327>>, <<1329, 1366>>,
       <<1376, 1416>>, <<4256, 4293>>, <<4295, 4295>>, <<4301, 4301>>, <<4304, 4346>>,
       <<4349, 4351>>, <<5024, 5109>>, <<5112, 5117>>, <<7296, 7306>>, <<7312, 7354>>,
       <<7357, 7359>>, <<7424, 7467>>, <<7531, 7543>>, <<7545, 7578>>, <<7680, 7957>>,
       <<7960, 7965>>, <<7968, 8005>>, <<8008, 8013>>, <<8016, 8023>>, <<8025, 8025>>,
       <<8027, 8027>>, <<8029, 8029>>, <<8031, 8061>>, <<8064, 8116>>, <<8118, 8124>>,
       <<8126, 8126>>, <<8130, 8132>>, <<8134, 8140>>, <<8144, 8147>>, <<8150, 8155>>,
       <<8160, 8172>>, <<8178, 8180>>, <<8182, 8188>>, <<8450, 8450>>, <<8455, 8455>>,
       <<8458, 8467>>, <<8469, 8469>>, <<8473, 8477>>, <<8484, 8484>>, <<8486, 8486>>,
       <<8488, 8488>>, <<8490, 8493>>, <<8495, 8500>>, <<8505, 8505>>, <<8508, 8511>>,
       <<8517, 8521>>, <<8526, 8526>>, <<8544, 8575>>, <<8579, 8580>>, <<9398, 9449>>,
       <<11264, 11387>>, <<11390, 11492>>, <<11499, 11502>>, <<11506, 11507>>,
       <<11520, 11557>>, <<11559, 11559>>, <<11565, 11565>>, <<42560, 42605>>,
       <<42624, 42651>>, <<42786, 42863>>, <<42865, 42887>>, <<42891, 42894>>,
       <<42896, 42972>>, <<42997, 42998>>, <<43002, 43002>>, <<43824, 43866>>,
       <<43872, 43880>>, <<43888, 43967>>, <<64256, 64262>>, <<64275, 64279>>,
       <<65313, 65338>>, <<65345, 65370>>, <<66560, 66639>>, <<66736, 66771>>,
       <<66776, 66811>>, <<66928, 66938>>, <<66940, 66954>>, <<66956, 66962>>,
       <<66964, 66965>>, <<66967, 66977>>, <<66979, 66993>>, <<66995, 67001>>,
       <<67003, 67004>>, <<68736, 68786>>, <<68800, 68850>>, <<68944, 68965>>,
       <<68976, 68997>>, <<71840, 71903>>, <<93760, 93823>>, <<93856, 93880>>,
       <<93883, 93907>>, <<119808, 119892>>, <<119894, 119964>>, <<119966, 119967>>,
       <<119970, 119970>>, <<119973, 119974>>, <<119977, 119980>>, <<119982, 119993>>,
       <<119995, 119995>>, <<119997, 120003>>, <<120005, 120069>>, <<120071, 120074>>,
       <<120077, 120084>>, <<120086, 120092>>, <<120094, 120121>>, <<120123, 120126>>,
       <<120128, 120132>>, <<120134, 120134>>, <<120138, 120144>>, <<120146, 120485>>,
       <<120488, 120512>>, <<120514, 120538>>, <<120540, 120570>>, <<120572, 120596>>,
       <<120598, 120628>>, <<120630, 120654>>, <<120656, 120686>>, <<120688, 120712>>,
       <<120714, 120744>>, <<120746, 120770>>, <<120772, 120779>>, <<122624, 122633>>,
       <<122635, 122654>>, <<122661, 122666>>, <<125184, 125251>>, <<127280, 127305>>,
       <<127312, 127337>>, <<127344, 127369>> >>

\* The case-ignorable code points, as ranges <<first, last>>.
CaseIgnorableRanges ==
    << <<39, 39>>, <<46, 46>>, <<58, 58>>, <<94, 94>>, <<96, 96>>, <<168, 168>>, <<173, 173>>,
       <<175, 175>>, <<180, 180>>, <<183, 184>>, <<688, 879>>, <<884, 885>>, <<890, 890>>,
       <<900, 901>>, <<903, 903>>, <<1155, 1161>>, <<1369, 1369>>, <<1375, 1375>>,
       <<1425, 1469>>, <<1471, 1471>>, <<1473, 1474>>, <<1476, 1477>>, <<1479, 1479>>,
       <<1524, 1524>>, <<1536, 1541>>, <<1552, 1562>>, <<1564, 1564>>, <<1600, 1600>>,
       <<1611, 1631>>, <<1648, 1648>>, <<1750, 1757>>, <<1759, 1768>>, <<1770, 1773>>,
       <<1807, 1807>>, <<1809, 1809>>, <<1840, 1866>>, <<1958, 1968>>, <<2027, 2037>>,
       <<2042, 2042>>, <<2045, 2045>>, <<2070, 2093>>, <<2137, 2139>>, <<2184, 2184>>,
       <<2192, 2193>>, <<2199, 2207>>, <<2249, 2306>>, <<2362, 2362>>, <<2364, 2364>>,
       <<2369, 2376>>, <<2381, 2381>>, <<2385, 2391>>, <<2402, 2403>>, <<2417, 2417>>,
       <<2433, 2433>>, <<2492, 2492>>, <<2497, 2500>>, <<2509, 2509>>, <<2530, 2531>>,
       <<2558, 2558>>, <<2561, 2562>>, <<2620, 2620>>, <<2625, 2626>>, <<2631, 2632>>,
       <<2635, 2637>>, <<2641, 2641>>, <<2672, 2673>>, <<2677, 2677>>, <<2689, 2690>>,
       <<2748, 2748>>, <<2753, 2757>>, <<2759, 2760>>, <<2765, 2765>>, <<2786, 2787>>,
       <<2810, 2815>>, <<2817, 2817>>, <<2876, 2876>>, <<2879, 2879>>, <<2881, 2884>>,
       <<2893, 2893>>, <<2901, 2902>>, <<2914, 2915>>, <<2946, 2946>>, <<3008, 3008>>,
       <<3021, 3021>>, <<3072, 3072>>, <<3076, 3076>>, <<3132, 3132>>, <<3134, 3136>>,
       <<3142, 3144>>, <<3146, 3149>>, <<3157, 3158>>, <<3170, 3171>>, <<3201, 3201>>,
       <<3260, 3260>>, <<3263, 3263>>, <<3270, 3270>>, <<3276, 3277>>, <<3298, 3299>>,
       <<3328, 3329>>, <<3387, 3388>>, <<3393, 3396>>, <<3405, 3405>>, <<3426, 3427>>,
       <<3457, 3457>>, <<3530, 3530>>, <<3538, 3540>>, <<3542, 3542>>, <<3633, 3633>>,
       <<3636, 3642>>, <<3654, 3662>>, <<3761, 3761>>, <<3764, 3772>>, <<3782, 3782>>,
       <<3784, 3790>>, <<3864, 3865>>, <<3893, 3893>>, <<3895, 3895>>, <<3897, 3897>>,
       <<3953, 3966>>, <<3968, 3972>>, <<3974, 3975>>, <<3981, 3991>>, <<3993, 4028>>,
       <<4038, 4038>>, <<4141, 4144>>, <<4146, 4151>>, <<4153, 4154>>, <<4157, 4158>>,
       <<4184, 4185>>, <<4190, 4192>>, <<4209, 4212>>, <<4226, 4226>>, <<4229, 4230>>,
       <<4237, 4237>>, <<4253, 4253>>, <<4348, 4348>>, <<4957, 4959>>, <<5906, 5908>>,
       <<5938, 5939>>, <<5970, 5971>>, <<6002, 6003>>, <<6068, 6069>>, <<6071, 6077>>,
       <<6086, 6086>>, <<6089, 6099>>, <<6103, 6103>>, <<6109, 6109>>, <<6155, 6159>>,
       <<6211, 6211>>, <<6277, 6278>>, <<6313, 6313>>, <<6432, 6434>>, <<6439, 6440>>,
       <<6450, 6450>>, <<6457, 6459>>, <<6679, 6680>>, <<6683, 6683>>, <<6742, 6742>>,
       <<6744, 6750>>, <<6752, 6752>>, <<6754, 6754>>, <<6757, 6764>>, <<6771, 6780>>,
       <<6783, 6783>>, <<6823, 6823>>, <<6832, 6877>>, <<6880, 6891>>, <<6912, 6915>>,
       <<6964, 6964>>, <<6966, 6970>>, <<6972, 6972>>, <<6978, 6978>>, <<7019, 7027>>,
       <<7040, 7041>>, <<7074, 7077>>, <<7080, 7081>>, <<7083, 7085>>, <<7142, 7142>>,
       <<7144, 7145>>, <<7149, 7149>>, <<7151, 7153>>, <<7212, 7219>>, <<7222, 7223>>,
       <<7288, 7293>>, <<7376, 7378>>, <<7380, 7392>>, <<7394, 7400>>, <<7405, 7405>>,
       <<7412, 7412>>, <<7416, 7417>>, <<7468, 7530>>, <<7544, 7544>>, <<7579, 7679>>,
       <<8125, 8125>>, <<8127, 8129>>, <<8141, 8143>>, <<8157, 8159>>, <<8173, 8175>>,
       <<8189, 8190>>, <<8203, 8207>>, <<8216, 8217>>, <<8228, 8228>>, <<8231, 8231>>,
       <<8234, 8238>>, <<8288, 8292>>, <<8294, 8303>>, <<8305, 8305>>, <<8319, 8319>>,
       <<8336, 8348>>, <<8400, 8432>>, <<11388, 11389>>, <<11503, 11505>>, <<11631, 11631>>,
       <<11647, 11647>>, <<11744, 11775>>, <<11823, 11823>>, <<12293, 12293>>,
       <<12330, 12333>>, <<12337, 12341>>, <<12347, 12347>>, <<12441, 12446>>,
       <<12540, 12542>>, <<40981, 40981>>, <<42232, 42237>>, <<42508, 42508>>,
       <<42607, 42610>>, <<42612, 42621>>, <<42623, 42623>>, <<42652, 42655>>,
       <<42736, 42737>>, <<42752, 42785>>, <<42864, 42864>>, <<42888, 42890>>,
       <<42993, 42996>>, <<43000, 43001>>, <<43010, 43010>>, <<43014, 43014>>,
       <<43019, 43019>>, <<43045, 43046>>, <<43052, 43052>>, <<43204, 43205>>,
       <<43232, 43249>>, <<43263, 43263>>, <<43302, 43309>>, <<43335, 43345>>,
       <<43392, 43394>>, <<43443, 43443>>, <<43446, 43449>>, <<43452, 43453>>,
       <<43471, 43471>>, <<43493, 43494>>, <<43561, 43566>>, <<43569, 43570>>,
       <<43573, 43574>>, <<43587, 43587>>, <<43596, 43596>>, <<43632, 43632>>,
       <<43644, 43644>>, <<43696, 43696>>, <<43698, 43700>>, <<43703, 43704>>,
       <<43710, 43711>>, <<43713, 43713>>, <<43741, 43741>>, <<43756, 43757>>,
       <<43763, 43764>>, <<43766, 43766>>, <<43867, 43871>>, <<43881, 43883>>,
       <<44005, 44005>>, <<44008, 44008>>, <<44013, 44013>>, <<64286, 64286>>,
       <<64434, 64450>>, <<65024, 65039>>, <<65043, 65043>>, <<65056, 65071>>,
       <<65106, 65106>>, <<65109, 65109>>, <<65279, 65279>>, <<65287, 65287>>,
       <<65294, 65294>>, <<65306, 65306>>, <<65342, 65342>>, <<65344, 65344>>,
       <<65392, 65392>>, <<65438, 65439>>, <<65507, 65507>>, <<65529, 65531>>,
       <<66045, 66045>>, <<66272, 66272>>, <<66422, 66426>>, <<67456, 67461>>,
       <<67463, 67504>>, <<67506, 67514>>, <<68097, 68099>>, <<68101, 68102>>,
       <<68108, 68111>>, <<68152, 68154>>, <<68159, 68159>>, <<68325, 68326>>,
       <<68900, 68903>>, <<68942, 68942>>, <<68969, 68973>>, <<68975, 68975>>,
       <<69291, 69292>>, <<69317, 69317>>, <<69370, 69375>>, <<69446, 69456>>,
       <<69506, 69509>>, <<69633, 69633>>, <<69688, 69702>>, <<69744, 69744>>,
       <<69747, 69748>>, <<69759, 69761>>, <<69811, 69814>>, <<69817, 69818>>,
       <<69821, 69821>>, <<69826, 69826>>, <<69837, 69837>>, <<69888, 69890>>,
       <<69927, 69931>>, <<69933, 69940>>, <<70003, 70003>>, <<70016, 70017>>,
       <<70070, 70078>>, <<70089, 70092>>, <<70095, 70095>>, <<70191, 70193>>,
       <<70196, 70196>>, <<70198, 70199>>, <<70206, 70206>>, <<70209, 70209>>,
       <<70367, 70367>>, <<70371, 70378>>, <<70400, 70401>>, <<70459, 70460>>,
       <<70464, 70464>>, <<70502, 70508>>, <<70512, 70516>>, <<70587, 70592>>,
       <<70606, 70606>>, <<70608, 70608>>, <<70610, 70610>>, <<70625, 70626>>,
       <<70712, 70719>>, <<70722, 70724>>, <<70726, 70726>>, <<70750, 70750>>,
       <<70835, 70840>>, <<70842, 70842>>, <<70847, 70848>>, <<70850, 70851>>,
       <<71090, 71093>>, <<71100, 71101>>, <<71103, 71104>>, <<71132, 71133>>,
       <<71219, 71226>>, <<71229, 71229>>, <<71231, 71232>>, <<71339, 71339>>,
       <<71341, 71341>>, <<71344, 71349>>, <<71351, 71351>>, <<71453, 71453>>,
       <<71455, 71455>>, <<71458, 71461>>, <<71463, 71467>>, <<71727, 71735>>,
       <<71737, 71738>>, <<71995, 71996>>, <<71998, 71998>>, <<72003, 72003>>,
       <<72148, 72151>>, <<72154, 72155>>, <<72160, 72160>>, <<72193, 72202>>,
       <<72243, 72248>>, <<72251, 72254>>, <<72263, 72263>>, <<72273, 72278>>,
       <<72281, 72283>>, <<72330, 72342>>, <<72344, 72345>>, <<72544, 72544>>,
       <<72546, 72548>>, <<72550, 72550>>, <<72752, 72758>>, <<72760, 72765>>,
       <<72767, 72767>>, <<72850, 72871>>, <<72874, 72880>>, <<72882, 72883>>,
       <<72885, 72886>>, <<73009, 73014>>, <<73018, 73018>>, <<73020, 73021>>,
       <<73023, 73029>>, <<73031, 73031>>, <<73104, 73105>>, <<73109, 73109>>,
       <<73111, 73111>>, <<73177, 73177>>, <<73459, 73460>>, <<73472, 73473>>,
       <<73526, 73530>>, <<73536, 73536>>, <<73538, 73538>>, <<73562, 73562>>,
       <<78896, 78912>>, <<78919, 78933>>, <<90398, 90409>>, <<90413, 90415>>,
       <<92912, 92916>>, <<92976, 92982>>, <<92992, 92995>>, <<93504, 93506>>,
       <<93547, 93548>>, <<94031, 94031>>, <<94095, 94111>>, <<94176, 94177>>,
       <<94179, 94180>>, <<94194, 94195>>, <<110576, 110579>>, <<110581, 110587>>,
       <<110589, 110590>>, <<113821, 113822>>, <<113824, 113827>>, <<118528, 118573>>,
       <<118576, 118598>>, <<119143, 119145>>, <<119155, 119170>>, <<119173, 119179>>,
       <<119210, 119213>>, <<119362, 119364>>, <<121344, 121398>>, <<121403, 121452>>,
       <<121461, 121461>>, <<121476, 121476>>, <<121499, 121503>>, <<121505, 121519>>,
       <<122880, 122886>>, <<122888, 122904>>, <<122907, 122913>>, <<122915, 122916>>,
       <<122918, 122922>>, <<122928, 122989>>, <<123023, 123023>>, <<123184, 123197>>,
       <<123566, 123566>>, <<123628, 123631>>, <<124139, 124143>>, <<124398, 124399>>,
       <<124643, 124643>>, <<124646, 124646>>, <<124654, 124655>>, <<124661, 124661>>,
       <<124671, 124671>>, <<125136, 125142>>, <<125252, 125259>>, <<127995, 127999>>,
       <<917505, 917505>>, <<917536, 917631>>, <<917760, 917999>> >>

InRanges(cp, ranges) == \E k \in 1..Len(ranges) : ranges[k][1] <= cp /\ cp <= ranges[k][2]

RECURSIVE CodePoints(_)
\* The code points of a string of code units: a high surrogate followed
\* by a low surrogate is one code point.
CodePoints(s) ==
    IF s = <<>> THEN <<>>
    ELSE LET hi == CodeUnit(s[1])
             lo == CodeUnit(s[2])
         IN  IF /\ Len(s) >= 2
                /\ hi >= 55296 /\ hi <= 56319
                /\ lo >= 56320 /\ lo <= 57343
             THEN <<65536 + (hi - 55296) * 1024 + (lo - 56320)>>
                      \o CodePoints(SubSeq(s, 3, Len(s)))
             ELSE <<hi>> \o CodePoints(Tail(s))

\* The code units of a code point.
FromCodePoint(cp) ==
    IF cp < 65536 THEN <<FromCodeUnit(cp)>>
    ELSE <<FromCodeUnit(55296 + ((cp - 65536) \div 1024)),
           FromCodeUnit(56320 + ((cp - 65536) % 1024))>>

\* Final_Sigma: the sigma at i follows a cased letter and case-ignorable
\* characters, and no cased letter follows it after case-ignorable
\* characters.
FinalSigma(cps, i) ==
    /\ \E j \in 1..(i - 1) :
           /\ InRanges(cps[j], CasedRanges)
           /\ \A k \in (j + 1)..(i - 1) : InRanges(cps[k], CaseIgnorableRanges)
    /\ ~\E j \in (i + 1)..Len(cps) :
           /\ InRanges(cps[j], CasedRanges)
           /\ \A k \in (i + 1)..(j - 1) : InRanges(cps[k], CaseIgnorableRanges)

\* The code points LowerRuns gives a lower case.
LowerMapped ==
    UNION {{LowerRuns[k][1] + LowerRuns[k][3] * n
            : n \in 0..((LowerRuns[k][2] - LowerRuns[k][1]) \div LowerRuns[k][3])}
           : k \in 1..Len(LowerRuns)}

\* The lower case of the code point at i: U+0130 gives i and U+0307,
\* U+03A3 gives U+03C2 in the Final_Sigma context and U+03C3 otherwise.
LowerAt(cps, i) ==
    IF cps[i] < 128
    THEN <<IF cps[i] >= 65 /\ cps[i] <= 90 THEN cps[i] + 32 ELSE cps[i]>>
    ELSE IF cps[i] = 304 THEN <<105, 775>>
    ELSE IF cps[i] = 931 THEN <<IF FinalSigma(cps, i) THEN 962 ELSE 963>>
    ELSE IF cps[i] \in LowerMapped
    THEN <<cps[i] + LowerRuns[CHOOSE k \in 1..Len(LowerRuns) :
                                  /\ LowerRuns[k][1] <= cps[i] /\ cps[i] <= LowerRuns[k][2]
                                  /\ (cps[i] - LowerRuns[k][1]) % LowerRuns[k][3] = 0][4]>>
    ELSE <<cps[i]>>

RECURSIVE LowerFrom(_, _)
LowerFrom(cps, i) ==
    IF i > Len(cps) THEN <<>>
    ELSE LET l == LowerAt(cps, i)
         IN  (IF Len(l) = 2
              THEN FromCodePoint(l[1]) \o FromCodePoint(l[2])
              ELSE FromCodePoint(l[1])) \o LowerFrom(cps, i + 1)

\* String.prototype.toLowerCase()
ToLowerCase(s) == CHOOSE r \in {LowerFrom(cps, 1) : cps \in {CodePoints(s)}} : TRUE

\* Position of the first occurrence of character c in s, 0 when absent.
IndexOfChar(s, c) ==
    IF \E k \in 1..Len(s) : s[k] = c
    THEN CHOOSE k \in 1..Len(s) : s[k] = c /\ \A j \in 1..(k - 1) : s[j] # c
    ELSE 0

(* ------------------------------------------------------------------ *)
(* Numbers: parseInt and String(n).padStart                            *)
(* ------------------------------------------------------------------ *)
NaN == [nan |-> TRUE, v |-> 0]
Num(n) == [nan |-> FALSE, v |-> n]

RECURSIVE DigitsPrefixValue(_, _)
DigitsPrefixValue(s, acc) ==
    IF s # <<>> /\ IsDigit(Head(s))
    THEN DigitsPrefixValue(Tail(s), acc * 10 + DigitValue(Head(s)))
    ELSE acc

\* c is a hexadecimal digit
IsHexDigit(c) == IsDigit(c) \/ c \in {"a", "b", "c", "d", "e", "f", "A", "B", "C", "D", "E", "F"}

RECURSIVE HexPrefixValue(_, _)
\* The value of the longest prefix of hexadecimal digits of s.
HexPrefixValue(s, acc) ==
    IF s = <<>> \/ ~IsHexDigit(Head(s)) THEN acc
    ELSE IF IsDigit(Head(s)) THEN HexPrefixValue(Tail(s), acc * 16 + DigitValue(Head(s)))
    ELSE HexPrefixValue(Tail(s), acc * 16 + ((CodeUnit(Head(s)) % 32) + 9))

\* parseInt(s) without a radix: leading whitespace skipped, an optional
\* sign, then either 0x / 0X and the longest prefix of hexadecimal digits
\* or the longest prefix of decimal digits; NaN when there is no digit.
ParseInt(s) ==
    CHOOSE r \in
        {IF t = <<>> THEN NaN
         ELSE IF Head(t) \in {"-", "+"} /\ Len(t) = 1 THEN NaN
         ELSE LET sign == IF Head(t) = "-" THEN -1 ELSE 1
                  p == IF Head(t) \in {"-", "+"} THEN 2 ELSE 1
              IN  IF Len(t) > p /\ t[p] = "0" /\ t[p + 1] \in {"x", "X"}
                  THEN (IF Len(t) > p + 1 /\ IsHexDigit(t[p + 2])
                        THEN Num(sign * HexPrefixValue(SubSeq(t, p + 2, Len(t)), 0))
                        ELSE NaN)
                  ELSE IF IsDigit(t[p])
                  THEN Num(sign * DigitsPrefixValue(SubSeq(t, p, Len(t)), 0))
                  ELSE NaN
         : t \in {TrimStart(s)}} : TRUE

RECURSIVE NatToString(_)
NatToString(n) ==
    IF n < 10 THEN <<DigitChars[n + 1]>>
    ELSE NatToString(n \div 10) \o <<DigitChars[(n % 10) + 1]>>

\* String(n) for an integer n
IntToString(n) == IF n < 0 THEN <<"-">> \o NatToString(-n) ELSE NatToString(n)

\* s.padStart(2, '0')
PadStart2(s) == IF Len(s) >= 2 THEN s ELSE IF Len(s) = 1 THEN <<"0">> \o s ELSE <<"0", "0">>

(* ------------------------------------------------------------------ *)
(* Dates                                                               *)
(* ------------------------------------------------------------------ *)
MsPerDay == 24 * 60 * 60 * 1000

\* Offset of the script's local time zone from UTC (no daylight saving).
LocalTZA == 9 * 60 * 60 * 1000

InvalidDate == [valid |-> FALSE, day |-> 0, ms |-> 0]

\* Day number of the civil date y-m-d (m in 1..12), proleptic Gregorian.
DaysFromCivil(y, m, d) ==
    LET yy == IF m <= 2 THEN y - 1 ELSE y
        era == yy \div 400
        yoe == yy - era * 400
        mp == (m + 9) % 12
        doy == (153 * mp + 2) \div 5 + d - 1
        doe == yoe * 365 + yoe \div 4 - yoe \div 100 + doy
    IN  era * 146097 + doe - 719468

\* The civil date [y, m, d] of a day number.
CivilFromDays(z) ==
    LET zz == z + 719468
        era == zz \div 146097
        doe == zz - era * 146097
        yoe == (doe - doe \div 1460 + doe \div 36524 - doe \div 146096) \div 365
        doy == doe - (365 * yoe + yoe \div 4 - yoe \div 100)
        mp == (5 * doy + 2) \div 153
        d == doy - (153 * mp + 2) \div 5 + 1
        m == IF mp < 10 THEN mp + 3 ELSE mp - 9
    IN  [y |-> yoe + era * 400 + (IF m <= 2 THEN 1 ELSE 0), m |-> m, d |-> d]

\* TimeClip on a day number and a count of milliseconds (any integer):
\* a time value more than 100,000,000 days from the epoch is NaN.
MakeTimeValue(day, ms) ==
    CHOOSE r \in
        {IF d < -100000000 \/ d > 100000000 \/ (d = 100000000 /\ m # 0)
         THEN InvalidDate
         ELSE [valid |-> TRUE, day |-> d, ms |-> m]
         : d \in {day + (ms \div MsPerDay)}, m \in {ms % MsPerDay}} : TRUE

\* MakeDate(MakeDay(year, month0, day), ms) and TimeClip: month0 is 0-based
\* and overflows into the year, the other fields overflow into the day.
\* MakeDay is NaN for a year beyond 1,000,000 either way.
MakeDayTime(year, month0, day, ms) ==
    IF year < -1000000 \/ year > 1000000 THEN InvalidDate
    ELSE MakeTimeValue(DaysFromCivil(year + (month0 \div 12), (month0 % 12) + 1, 1) + (day - 1), ms)

\* The time value of numeric fields as Date.UTC and the Date constructor
\* read them: a year in 0..99 means 1900 + year.
MakeUtc(year, month0, day, hour, minute, second, msec) ==
    MakeDayTime(IF year >= 0 /\ year <= 99 THEN 1900 + year ELSE year, month0, day,
                hour * 3600000 + minute * 60000 + second * 1000 + msec)

AnyNaN(fields) == \E k \in 1..Len(fields) : fields[k].nan

\* new Date(Date.UTC(year, month, day, hour, minute, second))
DateUTC(year, month0, day, hour, minute, second) ==
    IF AnyNaN(<<year, month0, day, hour, minute, second>>) THEN InvalidDate
    ELSE MakeUtc(year.v, month0.v, day.v, hour.v, minute.v, second.v, 0)

\* new Date(year, month, day, hour, minute, second): local wall-clock time
DateLocal(year, month0, day, hour, minute, second) ==
    IF AnyNaN(<<year, month0, day, hour, minute, second>>) THEN InvalidDate
    ELSE MakeUtc(year.v, month0.v, day.v, hour.v, minute.v, second.v, 0 - LocalTZA)

\* The local wall-clock reading of a valid date: the time value shifted by
\* the zone offset, with the civil fields of its day.
LocalFields(date) ==
    LET day == date.day + ((date.ms + LocalTZA) \div MsPerDay)
        c == CivilFromDays(day)
    IN  [y |-> c.y, m |-> c.m, d |-> c.d, day |-> day, ms |-> (date.ms + LocalTZA) % MsPerDay]

\* a < b on Dates (both valid)
DateLess(a, b) == a.day < b.day \/ (a.day = b.day /\ a.ms < b.ms)

(* ------------------------------------------------------------------ *)
(* ICS decoding: parseIcsDate, parseIcsDateTime, parseEventProperty    *)
(* ------------------------------------------------------------------ *)
BEGIN_VEVENT == <<"B", "E", "G", "I", "N", ":", "V", "E", "V", "E", "N", "T">>
END_VEVENT == <<"E", "N", "D", ":", "V", "E", "V", "E", "N", "T">>
PFX_SUMMARY == <<"S", "U", "M", "M", "A", "R", "Y", ":">>
PFX_DTSTART_DATE == <<"D", "T", "S", "T", "A", "R", "T", ";", "V", "A", "L", "U", "E", "=", "D", "A", "T", "E", ":">>
PFX_DTSTART == <<"D", "T", "S", "T", "A", "R", "T", ":">>
PFX_DTEND_DATE == <<"D", "T", "E", "N", "D", ";", "V", "A", "L", "U", "E", "=", "D", "A", "T", "E", ":">>
PFX_DTEND == <<"D", "T", "E", "N", "D", ":">>
PFX_DESCRIPTION == <<"D", "E", "S", "C", "R", "I", "P", "T", "I", "O", "N", ":">>
PFX_LOCATION == <<"L", "O", "C", "A", "T", "I", "O", "N", ":">>

\* n - 1 on a parseInt result (NaN - 1 is NaN)
MinusOne(n) == IF n.nan THEN NaN ELSE Num(n.v - 1)

\* parseIcsDate(dateStr): YYYYMMDD at local midnight
parseIcsDate(dateStr) ==
    LET year == ParseInt(Substring(dateStr, 0, 4))
        month == MinusOne(ParseInt(Substring(dateStr, 4, 6)))
        day == ParseInt(Substring(dateStr, 6, 8))
    IN  DateLocal(year, month, day, Num(0), Num(0), Num(0))

\* dateTimeStr.split('T'): the first two pieces; without a 'T' there is
\* no second piece (timePart is undefined).
SplitT(s) ==
    LET p == IndexOfChar(s, "T")
        rest == SubSeq(s, p + 1, Len(s))
        q == IndexOfChar(rest, "T")
    IN  IF p = 0 THEN [hasTime |-> FALSE, datePart |-> s, timePart |-> <<>>]
        ELSE [hasTime |-> TRUE, datePart |-> SubSeq(s, 1, p - 1),
              timePart |-> IF q = 0 THEN rest ELSE SubSeq(rest, 1, q - 1)]

\* parseIcsDateTime(dateTimeStr): YYYYMMDDTHHMMSS[Z].  The result is
\* [threw, date]: timePart.substring raises a TypeError when the string
\* holds no 'T'.
parseIcsDateTime(dateTimeStr) ==
    LET sp == SplitT(dateTimeStr)
        year == ParseInt(Substring(sp.datePart, 0, 4))
        month == MinusOne(ParseInt(Substring(sp.datePart, 4, 6)))
        day == ParseInt(Substring(sp.datePart, 6, 8))
        hour == ParseInt(Substring(sp.timePart, 0, 2))
        minute == ParseInt(Substring(sp.timePart, 2, 4))
        second == ParseInt(Substring(sp.timePart, 4, 6))
    IN  IF ~sp.hasTime THEN [threw |-> TRUE, date |-> InvalidDate]
        ELSE IF EndsWith(dateTimeStr, <<"Z">>)
        THEN [threw |-> FALSE, date |-> DateUTC(year, month, day, hour, minute, second)]
        ELSE [threw |-> FALSE, date |-> DateLocal(year, month, day, hour, minute, second)]

\* The object literal {} that BEGIN:VEVENT creates.  A missing title,
\* start or end is hasX = FALSE; isAllDay is "undefined", "true" or
\* "false"; a missing description or location is the empty string (every
\* reader of them uses `|| ''`); rowIndex is 0 when the property is absent.
NewEvent ==
    [hasTitle |-> FALSE, title |-> <<>>,
     hasStart |-> FALSE, start |-> InvalidDate,
     hasEnd |-> FALSE, end |-> InvalidDate,
     isAllDay |-> "undefined",
     description |-> <<>>, location |-> <<>>, rowIndex |-> 0]

\* event.isAllDay = true; event.start = parseIcsDate(value)
ApplyDtstartDate(event, value) ==
    [event EXCEPT !.isAllDay = "true", !.hasStart = TRUE, !.start = parseIcsDate(value)]

\* event.isAllDay = false; event.start = parseIcsDateTime(value).  The
\* flag is assigned before the decoder can raise.
ApplyDtstartDateTime(event, value) ==
    LET r == parseIcsDateTime(value)
    IN  [threw |-> r.threw,
         event |-> IF r.threw THEN [event EXCEPT !.isAllDay = "false"]
                   ELSE [event EXCEPT !.isAllDay = "false", !.hasStart = TRUE,
                                      !.start = r.date]]

\* event.end = parseIcsDate(value)
ApplyDtendDate(event, value) ==
    [event EXCEPT !.hasEnd = TRUE, !.end = parseIcsDate(value)]

\* ApplyDtendDateTime that also clears the all-day flag.
ApplyDtendDateTimeClearingFlag(event, value) ==
    LET r == parseIcsDateTime(value)
    IN  [threw |-> r.threw,
         event |-> IF r.threw THEN event
                   ELSE [event EXCEPT !.hasEnd = TRUE, !.end = r.date, !.isAllDay = "false"]]

\* event.end = parseIcsDateTime(value)
ApplyDtendDateTime(event, value) ==
    LET r == parseIcsDateTime(value)
    IN  [threw |-> r.threw,
         event |-> IF r.threw THEN event
                   ELSE [event EXCEPT !.hasEnd = TRUE, !.end = r.date]]

\* parseEventProperty(line, event): [threw, event]
parseEventProperty(line, event) ==
    IF StartsWith(line, PFX_SUMMARY)
    THEN [threw |-> FALSE,
          event |-> [event EXCEPT !.hasTitle = TRUE,
                                  !.title = Trim(SubstringFrom(line, 8))]]
    ELSE IF StartsWith(line, PFX_DTSTART_DATE)
    THEN [threw |-> FALSE, event |-> ApplyDtstartDate(event, SubstringFrom(line, 19))]
    ELSE IF StartsWith(line, PFX_DTSTART)
    THEN ApplyDtstartDateTime(event, SubstringFrom(line, 8))
    ELSE IF StartsWith(line, PFX_DTEND_DATE)
    THEN [threw |-> FALSE, event |-> ApplyDtendDate(event, SubstringFrom(line, 17))]
    ELSE IF StartsWith(line, PFX_DTEND)
    THEN ApplyDtendDateTime(event, SubstringFrom(line, 6))
    ELSE IF StartsWith(line, PFX_DESCRIPTION)
    THEN [threw |-> FALSE, event |-> [event EXCEPT !.description = SubstringFrom(line, 12)]]
    ELSE IF StartsWith(line, PFX_LOCATION)
    THEN [threw |-> FALSE, event |-> [event EXCEPT !.location = SubstringFrom(line, 9)]]
    ELSE [threw |-> FALSE, event |-> event]

(* ------------------------------------------------------------------ *)
(* parseIcsContent                                                     *)
(* ------------------------------------------------------------------ *)
StartsWithFold(l) == StartsWith(l, <<" ">>) \/ StartsWith(l, <<"\t">>)

RECURSIVE JoinContinuations(_, _)
\* line += lines[++i].substring(1), for each continuation line in turn
JoinContinuations(line, conts) ==
    IF conts = <<>> THEN line
    ELSE JoinContinuations(line \o SubstringFrom(Head(conts), 1), Tail(conts))

\* The logical line of one loop iteration: phys[1] is lines[i], the rest
\* are the continuation lines the while loop consumes.
UnfoldLine(phys) == JoinContinuations(Trim(phys[1]), Tail(phys))

\* The parser's local variables: currentEvent (hasCurrent = FALSE is null),
\* inEvent, events, and whether an exception left the function.
ParserStart ==
    [hasCurrent |-> FALSE, currentEvent |-> NewEvent, inEvent |-> FALSE,
     events |-> <<>>, threw |-> FALSE]

\* Complete with the test of start forgotten.
CompleteTitleOnly(st) ==
    /\ st.hasCurrent
    /\ st.currentEvent.hasTitle /\ st.currentEvent.title # <<>>

\* if (currentEvent?.title && currentEvent?.start)
Complete(st) ==
    /\ st.hasCurrent
    /\ st.currentEvent.hasTitle /\ st.currentEvent.title # <<>>
    /\ st.currentEvent.hasStart

\* The loop body whose BEGIN:VEVENT branch keeps the accumulator of a block
\* that is still open.
LoopBodyKeepingNested(st, line) ==
    IF line = BEGIN_VEVENT
    THEN (IF st.inEvent THEN st
          ELSE [st EXCEPT !.hasCurrent = TRUE, !.currentEvent = NewEvent, !.inEvent = TRUE])
    ELSE IF line = END_VEVENT /\ st.inEvent
    THEN [st EXCEPT !.events = IF Complete(st) THEN Append(st.events, st.currentEvent)
                                ELSE st.events,
                    !.hasCurrent = FALSE, !.currentEvent = NewEvent, !.inEvent = FALSE]
    ELSE IF st.inEvent /\ st.hasCurrent
    THEN LET r == parseEventProperty(line, st.currentEvent)
         IN  [st EXCEPT !.currentEvent = r.event, !.threw = r.threw]
    ELSE st

\* The if / else-if chain of the loop body, applied to one logical line.
LoopBody(st, line) ==
    IF line = BEGIN_VEVENT
    THEN [st EXCEPT !.hasCurrent = TRUE, !.currentEvent = NewEvent, !.inEvent = TRUE]
    ELSE IF line = END_VEVENT /\ st.inEvent
    THEN [st EXCEPT !.events = IF Complete(st) THEN Append(st.events, st.currentEvent)
                                ELSE st.events,
                    !.hasCurrent = FALSE, !.currentEvent = NewEvent, !.inEvent = FALSE]
    ELSE IF st.inEvent /\ st.hasCurrent
    THEN LET r == parseEventProperty(line, st.currentEvent)
         IN  [st EXCEPT !.currentEvent = r.event, !.threw = r.threw]
    ELSE st

\* Physical lines into the groups the loop iterations consume: a line and
\* the continuation lines that follow it.
RECURSIVE GroupLines(_, _)
GroupLines(lines, groups) ==
    IF lines = <<>> THEN groups
    ELSE IF groups # <<>> /\ StartsWithFold(Head(lines))
    THEN GroupLines(Tail(lines),
                    [groups EXCEPT ![Len(groups)] = Append(@, Head(lines))])
    ELSE GroupLines(Tail(lines), Append(groups, <<Head(lines)>>))

RECURSIVE ParseGroups(_, _)
\* The for loop: the loop body on each group in turn, until the end of the
\* lines or an exception.  (The values the loop carries are bound before
\* it goes on.)
ParseGroups(st, groups) ==
    IF groups = <<>> \/ st.threw THEN st
    ELSE CHOOSE r \in {ParseGroups(next, rest) :
                          next \in {LoopBody(st, UnfoldLine(Head(groups)))},
                          rest \in {Tail(groups)}} : TRUE

\* parseIcsContent(content), content given as its physical lines
\* (content.split(/\r?\n/)): [threw, events].
parseIcsContent(lines) ==
    CHOOSE r \in {[threw |-> st.threw, events |-> IF st.threw THEN <<>> ELSE st.events] :
                     st \in {ParseGroups(ParserStart, g) : g \in {GroupLines(lines, <<>>)}}} : TRUE

(* ------------------------------------------------------------------ *)
(* Keys, deduplication, date range, filtering                          *)
(* ------------------------------------------------------------------ *)
NaNString == <<"N", "a", "N">>

\* formatDateKey(date): YYYY-MM-DD of the local calendar day
formatDateKey(date) ==
    IF ~date.valid THEN NaNString \o <<"-">> \o NaNString \o <<"-">> \o NaNString
    ELSE LET f == LocalFields(date)
         IN  IntToString(f.y) \o <<"-">> \o PadStart2(IntToString(f.m))
                 \o <<"-">> \o PadStart2(IntToString(f.d))

\* generateEventKey(event)
generateEventKey(event) ==
    formatDateKey(event.start) \o <<"|">> \o Trim(ToLowerCase(event.title))

RECURSIVE DedupLoop(_, _, _)
\* The forEach of removeDuplicateEvents with its seenKeys and uniqueEvents.
DedupLoop(events, seenKeys, uniqueEvents) ==
    IF events = <<>> THEN uniqueEvents
    ELSE LET key == generateEventKey(Head(events))
         IN  IF key \notin seenKeys
             THEN DedupLoop(Tail(events), seenKeys \cup {key},
                            Append(uniqueEvents, Head(events)))
             ELSE DedupLoop(Tail(events), seenKeys, uniqueEvents)

\* removeDuplicateEvents without seenKeys.add(key): no key is ever seen.
removeDuplicateEventsNoAdd(events) ==
    LET RECURSIVE Loop(_, _)
        Loop(evs, uniqueEvents) ==
            IF evs = <<>> THEN uniqueEvents
            ELSE Loop(Tail(evs), IF generateEventKey(Head(evs)) \notin {}
                                 THEN Append(uniqueEvents, Head(evs)) ELSE uniqueEvents)
    IN  Loop(events, <<>>)

\* removeDuplicateEvents(events)
removeDuplicateEvents(events) == DedupLoop(events, {}, <<>>)

\* Array.prototype.filter with the predicate of filterEventsToCreate
RECURSIVE FilterLoop(_, _)
FilterLoop(events, existingKeys) ==
    IF events = <<>> THEN <<>>
    ELSE IF generateEventKey(Head(events)) \notin existingKeys
    THEN <<Head(events)>> \o FilterLoop(Tail(events), existingKeys)
    ELSE FilterLoop(Tail(events), existingKeys)

\* filterEventsToCreate with the negation lost: return existingKeys.has(key)
filterEventsToCreateInverted(events, existingKeys) ==
    LET RECURSIVE Loop(_)
        Loop(evs) ==
            IF evs = <<>> THEN <<>>
            ELSE (IF generateEventKey(Head(evs)) \in existingKeys
                  THEN <<Head(evs)>> ELSE <<>>) \o Loop(Tail(evs))
    IN  Loop(events)

\* filterEventsToCreate(events, existingKeys)
filterEventsToCreate(events, existingKeys) == FilterLoop(events, existingKeys)

\* a < b on Date objects: false when either is the Invalid Date
DateLT(a, b) == a.valid /\ b.valid /\ DateLess(a, b)

RECURSIVE MinDate(_, _)
MinDate(events, m) ==
    IF events = <<>> THEN m
    ELSE MinDate(Tail(events), IF DateLT(Head(events).start, m) THEN Head(events).start ELSE m)

RECURSIVE MaxDate(_, _)
MaxDate(events, m) ==
    IF events = <<>> THEN m
    ELSE MaxDate(Tail(events), IF DateLT(m, Head(events).start) THEN Head(events).start ELSE m)

\* d.setDate(d.getDate() + delta): the local day moves, the local time of
\* day stays.
SetDateBy(date, delta) ==
    IF ~date.valid THEN InvalidDate
    ELSE MakeTimeValue(LocalFields(date).day + delta, LocalFields(date).ms - LocalTZA)

\* d.setHours(h, mi, s, ms), msOfDay being the milliseconds they make.
SetHours(date, msOfDay) ==
    IF ~date.valid THEN InvalidDate
    ELSE MakeTimeValue(LocalFields(date).day, msOfDay - LocalTZA)

\* d.setDate(d.getDate() + delta); d.setHours(h, mi, s, ms)
ShiftDayAt(date, delta, msOfDay) == SetHours(SetDateBy(date, delta), msOfDay)

NoRange == [has |-> FALSE, start |-> InvalidDate, end |-> InvalidDate]

\* getEventDateRange(events): has = FALSE is { start: null, end: null }
getEventDateRange(events) ==
    IF Len(events) = 0 THEN NoRange
    ELSE [has |-> TRUE,
          start |-> ShiftDayAt(MinDate(events, events[1].start), -1, 0),
          end |-> ShiftDayAt(MaxDate(events, events[1].start), 1, MsPerDay - 1)]

(* ------------------------------------------------------------------ *)
(* Input lines of the parser                                           *)
(* ------------------------------------------------------------------ *)
LineSummary == <<"S", "U", "M", "M", "A", "R", "Y", ":", "A", "b">>
LineSummaryBlank == <<"S", "U", "M", "M", "A", "R", "Y", ":", "U+3000">>
LineStartDate == <<"D", "T", "S", "T", "A", "R", "T", ";", "V", "A", "L", "U", "E", "=", "D", "A", "T", "E", ":", "2", "0", "2", "4", "0", "1", "0", "5">>
LineStartTime == <<"D", "T", "S", "T", "A", "R", "T", ":", "2", "0", "2", "4", "0", "1", "0", "5", "T", "1", "0", "0", "0", "0", "0">>
LineStartUtc == <<"D", "T", "S", "T", "A", "R", "T", ":", "2", "0", "2", "4", "0", "1", "0", "5", "T", "1", "6", "0", "0", "0", "0", "Z">>
LineStartNoTime == <<"D", "T", "S", "T", "A", "R", "T", ":", "2", "0", "2", "4">>
LineEndDate == <<"D", "T", "E", "N", "D", ";", "V", "A", "L", "U", "E", "=", "D", "A", "T", "E", ":", "2", "0", "2", "4", "0", "1", "0", "6">>
LineEndTime == <<"D", "T", "E", "N", "D", ":", "2", "0", "2", "4", "0", "1", "0", "5", "T", "1", "1", "0", "0", "0", "0">>
LineDescription == <<"D", "E", "S", "C", "R", "I", "P", "T", "I", "O", "N", ":", "a", " ">>
LineLocation == <<"L", "O", "C", "A", "T", "I", "O", "N", ":", "R">>
LineIndentedBegin == <<" ", "B", "E", "G", "I", "N", ":", "V", "E", "V", "E", "N", "T">>

\* Physical lines that can open a loop iteration: after the first
\* iteration such a line never starts with a space or a tab, because the
\* while loop of the iteration before has consumed every such line.
PlainLines ==
    {BEGIN_VEVENT, END_VEVENT, LineSummary, LineSummaryBlank, LineStartDate,
     LineStartTime, LineStartUtc, LineStartNoTime, LineEndDate, LineEndTime,
     LineDescription, LineLocation}
FoldLines == {<<" ", "b">>, <<"\t", "c", " ">>}
FirstLines == PlainLines \cup {LineIndentedBegin}

\* Sequences over S of length 0..n
SeqsUpTo(S, n) == UNION {[1..k -> S] : k \in 0..n}

(* ------------------------------------------------------------------ *)
(* The error ledger (spreadsheet) and the calendar store               *)
(* ------------------------------------------------------------------ *)
StrTRUE == <<"T", "R", "U", "E">>
StrFALSE == <<"F", "A", "L", "S", "E">>
StrApiError == <<"A", "P", "I", " ", "e", "r", "r", "o", "r">>
StrSync == <<"S", "y", "n", "c">>
StrSyncStart == <<"2", "0", "2", "4", "-", "0", "2", "-", "0", "1", "T", "1", "0", ":", "0", "0", ":", "0", "0">>
StrStandup == <<"S", "t", "a", "n", "d", "u", "p">>
LineSummaryStandup == <<"S", "U", "M", "M", "A", "R", "Y", ":", "S", "t", "a", "n", "d", "u", "p">>
LineSummaryStandupLoose == <<"S", "U", "M", "M", "A", "R", "Y", ":", "U+3000", "s", "t", "a", "n", "d", "u", "p", " ">>
LineSummarySync == <<"S", "U", "M", "M", "A", "R", "Y", ":", "S", "y", "n", "c">>
LineStartAfternoon == <<"D", "T", "S", "T", "A", "R", "T", ":", "2", "0", "2", "4", "0", "1", "0", "5", "T", "1", "5", "0", "0", "0", "0">>
LineStartFeb == <<"D", "T", "S", "T", "A", "R", "T", ":", "2", "0", "2", "4", "0", "2", "0", "1", "T", "1", "0", "0", "0", "0", "0">>
LineBeginCalendar == <<"B", "E", "G", "I", "N", ":", "V", "C", "A", "L", "E", "N", "D", "A", "R">>
LineEndCalendar == <<"E", "N", "D", ":", "V", "C", "A", "L", "E", "N", "D", "A", "R">>

\* A cell of the sheet holding a start or an end: a Date or a string.
DateCell(d) == [kind |-> "date", text |-> <<>>, date |-> d]
TextCell(t) == [kind |-> "text", text |-> t, date |-> InvalidDate]

\* Truthiness of a cell value: a Date is truthy, a string when non-empty.
Truthy(cell) == cell.kind = "date" \/ cell.text # <<>>

(* ------------------------------------------------------------------ *)
(* new Date(string): the date parser of V8, which reads an ES5 date    *)
(* time string and hands what does not match to its legacy parser      *)
(* ------------------------------------------------------------------ *)
\* A token of the date string: t is "num" (v the value, len the count of
\* digits), "sym" (k the character), "word" (k the keyword type, v the
\* keyword value, len the length of the word), "ws", "unk" or "end".
DateToken(t, k, v, len) == [t |-> t, k |-> k, v |-> v, len |-> len]

\* The keywords: the lower-cased prefix of the word, the type, the value.
KeywordTable ==
    << << <<"j", "a", "n">>, "MONTH_NAME", 1>>, << <<"f", "e", "b">>, "MONTH_NAME", 2>>,
       << <<"m", "a", "r">>, "MONTH_NAME", 3>>, << <<"a", "p", "r">>, "MONTH_NAME", 4>>,
       << <<"m", "a", "y">>, "MONTH_NAME", 5>>, << <<"j", "u", "n">>, "MONTH_NAME", 6>>,
       << <<"j", "u", "l">>, "MONTH_NAME", 7>>, << <<"a", "u", "g">>, "MONTH_NAME", 8>>,
       << <<"s", "e", "p">>, "MONTH_NAME", 9>>, << <<"o", "c", "t">>, "MONTH_NAME", 10>>,
       << <<"n", "o", "v">>, "MONTH_NAME", 11>>, << <<"d", "e", "c">>, "MONTH_NAME", 12>>,
       << <<"a", "m">>, "AM_PM", 0>>, << <<"p", "m">>, "AM_PM", 12>>,
       << <<"u", "t">>, "TIME_ZONE_NAME", 0>>, << <<"u", "t", "c">>, "TIME_ZONE_NAME", 0>>,
       << <<"z">>, "TIME_ZONE_NAME", 0>>, << <<"g", "m", "t">>, "TIME_ZONE_NAME", 0>>,
       << <<"c", "d", "t">>, "TIME_ZONE_NAME", -5>>, << <<"c", "s", "t">>, "TIME_ZONE_NAME", -6>>,
       << <<"e", "d", "t">>, "TIME_ZONE_NAME", -4>>, << <<"e", "s", "t">>, "TIME_ZONE_NAME", -5>>,
       << <<"m", "d", "t">>, "TIME_ZONE_NAME", -6>>, << <<"m", "s", "t">>, "TIME_ZONE_NAME", -7>>,
       << <<"p", "d", "t">>, "TIME_ZONE_NAME", -7>>, << <<"p", "s", "t">>, "TIME_ZONE_NAME", -8>>,
       << <<"t">>, "TIME_SEPARATOR", 0>> >>

\* ReadUnsignedNumeral on a run of digits: leading zeros skipped, then
\* the value of at most nine digits.
ReadUnsignedNumeral(digits) ==
    CHOOSE r \in
        {DigitsPrefixValue(SubSeq(digits, z + 1, Min(z + 9, Len(digits))), 0)
         : z \in {CHOOSE n \in 0..Len(digits) :
                      /\ \A k \in 1..n : digits[k] = "0"
                      /\ (n = Len(digits) \/ digits[n + 1] # "0")}} : TRUE

\* A character of a word: at or above 'A' and no WhiteSpace; the line
\* terminators U+2028 and U+2029 are no WhiteSpace and belong to words.
IsWordChar(c) == CodeUnit(c) >= 65 /\ (~IsWhitespace(c) \/ c \in {"U+2028", "U+2029"})

\* KeywordTable::Lookup on a word: its first three characters lower-cased
\* (a letter A to Z; no other character becomes a letter of a keyword) are
\* a keyword, and a word longer than three characters is a month only.
Lookup(word) ==
    CHOOSE r \in
        {IF \E i \in 1..Len(KeywordTable) :
                /\ KeywordTable[i][1] = pre
                /\ (Len(word) <= 3 \/ KeywordTable[i][2] = "MONTH_NAME")
         THEN DateToken("word",
                        KeywordTable[CHOOSE i \in 1..Len(KeywordTable) : KeywordTable[i][1] = pre][2],
                        KeywordTable[CHOOSE i \in 1..Len(KeywordTable) : KeywordTable[i][1] = pre][3],
                        Len(word))
         ELSE DateToken("word", "INVALID", 0, Len(word))
         : pre \in {[k \in 1..Min(Len(word), 3) |->
                        IF CodeUnit(word[k]) >= 65 /\ CodeUnit(word[k]) <= 90
                        THEN FromCodeUnit(CodeUnit(word[k]) + 32) ELSE word[k]]}} : TRUE

\* SkipParentheses on s, which starts with "(": the count of characters
\* up to the parenthesis that closes it, all of s when none does.
ParenRun(s) ==
    IF \E n \in 1..Len(s) : Cardinality({j \in 1..n : s[j] = "("})
                                  <= Cardinality({j \in 1..n : s[j] = ")"})
    THEN CHOOSE n \in 1..Len(s) :
             /\ Cardinality({j \in 1..n : s[j] = "("}) <= Cardinality({j \in 1..n : s[j] = ")"})
             /\ \A m \in 1..(n - 1) :
                    Cardinality({j \in 1..m : s[j] = "("}) > Cardinality({j \in 1..m : s[j] = ")"})
    ELSE Len(s)

RECURSIVE DateTokens(_)
\* DateStringTokenizer::Scan until the end of the input.
DateTokens(s) ==
    IF s = <<>> THEN <<>>
    ELSE IF IsDigit(s[1])
    THEN CHOOSE r \in
             {<<DateToken("num", "", ReadUnsignedNumeral(SubSeq(s, 1, n)), n)>>
                  \o DateTokens(SubSeq(s, n + 1, Len(s)))
              : n \in {CHOOSE m \in 1..Len(s) :
                           /\ \A k \in 1..m : IsDigit(s[k])
                           /\ (m = Len(s) \/ ~IsDigit(s[m + 1]))}} : TRUE
    ELSE IF s[1] \in {":", "-", "+", ".", ")"}
    THEN <<DateToken("sym", s[1], 0, 1)>> \o DateTokens(Tail(s))
    ELSE IF IsWordChar(s[1])
    THEN CHOOSE r \in
             {<<Lookup(SubSeq(s, 1, n))>> \o DateTokens(SubSeq(s, n + 1, Len(s)))
              : n \in {CHOOSE m \in 1..Len(s) :
                           /\ \A k \in 1..m : IsWordChar(s[k])
                           /\ (m = Len(s) \/ ~IsWordChar(s[m + 1]))}} : TRUE
    ELSE IF IsWhitespace(s[1])
    THEN <<DateToken("ws", "", 0, 1)>> \o DateTokens(Tail(s))
    ELSE IF s[1] = "("
    THEN <<DateToken("unk", "", 0, 0)>> \o DateTokens(SubSeq(s, ParenRun(s) + 1, Len(s)))
    ELSE <<DateToken("unk", "", 0, 0)>> \o DateTokens(Tail(s))

\* The input of the parser ends at the first NUL character.
UpToNul(s) ==
    IF \E k \in 1..Len(s) : s[k] = "U+0000"
    THEN SubSeq(s, 1, IndexOfChar(s, "U+0000") - 1)
    ELSE s

\* The token at position i, the end of the input past the last one.
Tok(toks, i) == IF i <= Len(toks) THEN toks[i] ELSE DateToken("end", "", 0, 0)

IsFixedNumber(tok, len) == tok.t = "num" /\ tok.len = len
IsSymbol(tok, c) == tok.t = "sym" /\ tok.k = c
IsAsciiSign(tok) == tok.t = "sym" /\ tok.k \in {"+", "-"}
IsKeywordZ(tok) == tok.t = "word" /\ tok.k = "TIME_ZONE_NAME" /\ tok.len = 1

\* ReadMilliseconds: the first three digits of a fraction of a second.
ReadMilliseconds(tok) ==
    IF tok.len = 1 THEN tok.v * 100
    ELSE IF tok.len = 2 THEN tok.v * 10
    ELSE IF tok.len > 3
    THEN tok.v \div <<10, 100, 1000, 10000, 100000, 1000000>>[Min(tok.len, 9) - 3]
    ELSE tok.v

\* The composers of the parser: the numbers of the day (at most three),
\* the named month (0: none), the numbers of the time (at most four), the
\* hour offset of AM or PM (-1: none), the sign (0: none), the hour and
\* the minute (-1: none) of the time zone; read is has_read_number.
Composers ==
    [ok |-> TRUE, day |-> <<>>, month |-> 0, iso |-> FALSE, time |-> <<>>, hourOffset |-> -1,
     tzSign |-> 0, tzHour |-> -1, tzMinute |-> -1, read |-> FALSE]

\* What ParseES5DateTime returns: every token used ("done"), the position
\* of the token the legacy parser starts at ("legacy"), or "invalid".
ES5Result(status, at, st) == [status |-> status, at |-> at, st |-> st]

\* TimeZoneComposer::Set(offset_in_hours)
TzSet(st, hours) ==
    [st EXCEPT !.tzSign = IF hours < 0 THEN -1 ELSE 1,
               !.tzHour = IF hours < 0 THEN -hours ELSE hours,
               !.tzMinute = 0]

\* The end of ParseES5DateTime: UTC when neither a zone nor a time was
\* read, and the day is an ISO date.
ES5Done(toks, i, st) ==
    IF Tok(toks, i).t # "end" THEN ES5Result("invalid", 0, st)
    ELSE ES5Result("done", i,
                   [(IF st.tzHour = -1 /\ st.time = <<>> THEN TzSet(st, 0) ELSE st)
                        EXCEPT !.iso = TRUE])

\* The optional time zone designation: 'Z' | [+-]hhmm | [+-]hh':'mm
ES5Zone(toks, i, st) ==
    IF IsKeywordZ(Tok(toks, i)) THEN ES5Done(toks, i + 1, TzSet(st, 0))
    ELSE IF ~IsAsciiSign(Tok(toks, i)) THEN ES5Done(toks, i, st)
    ELSE IF IsFixedNumber(Tok(toks, i + 1), 4)
    THEN (IF (toks[i + 1].v \div 100) > 23 \/ (toks[i + 1].v % 100) > 59
          THEN ES5Result("invalid", 0, st)
          ELSE ES5Done(toks, i + 2,
                       [st EXCEPT !.tzSign = IF toks[i].k = "+" THEN 1 ELSE -1,
                                  !.tzHour = toks[i + 1].v \div 100,
                                  !.tzMinute = toks[i + 1].v % 100]))
    ELSE IF \/ ~IsFixedNumber(Tok(toks, i + 1), 2) \/ Tok(toks, i + 1).v > 23
            \/ ~IsSymbol(Tok(toks, i + 2), ":")
            \/ ~IsFixedNumber(Tok(toks, i + 3), 2) \/ Tok(toks, i + 3).v > 59
    THEN ES5Result("invalid", 0, st)
    ELSE ES5Done(toks, i + 4,
                 [st EXCEPT !.tzSign = IF toks[i].k = "+" THEN 1 ELSE -1,
                            !.tzHour = toks[i + 1].v, !.tzMinute = toks[i + 3].v])

\* The optional time string: 'T'HH':'mm[':'ss['.'sss]], hour 24 only as
\* 24:00:00.000.  Without the 'T' the date alone is an ES5 string when the
\* input ends there, and the legacy parser goes on otherwise.
ES5Time(toks, i, st) ==
    IF ~(Tok(toks, i).t = "word" /\ Tok(toks, i).k = "TIME_SEPARATOR")
    THEN (IF Tok(toks, i).t = "end" THEN ES5Done(toks, i, st) ELSE ES5Result("legacy", i, st))
    ELSE IF \/ ~IsFixedNumber(Tok(toks, i + 1), 2) \/ Tok(toks, i + 1).v > 24
            \/ ~IsSymbol(Tok(toks, i + 2), ":")
            \/ ~IsFixedNumber(Tok(toks, i + 3), 2) \/ Tok(toks, i + 3).v > 59
            \/ (Tok(toks, i + 1).v = 24 /\ Tok(toks, i + 3).v > 0)
    THEN ES5Result("invalid", 0, st)
    ELSE IF ~IsSymbol(Tok(toks, i + 4), ":")
    THEN ES5Zone(toks, i + 4, [st EXCEPT !.time = <<toks[i + 1].v, toks[i + 3].v>>])
    ELSE IF \/ ~IsFixedNumber(Tok(toks, i + 5), 2) \/ Tok(toks, i + 5).v > 59
            \/ (Tok(toks, i + 1).v = 24 /\ Tok(toks, i + 5).v > 0)
    THEN ES5Result("invalid", 0, st)
    ELSE IF ~IsSymbol(Tok(toks, i + 6), ".")
    THEN ES5Zone(toks, i + 6,
                 [st EXCEPT !.time = <<toks[i + 1].v, toks[i + 3].v, toks[i + 5].v>>])
    ELSE IF Tok(toks, i + 7).t # "num" \/ (Tok(toks, i + 1).v = 24 /\ Tok(toks, i + 7).v > 0)
    THEN ES5Result("invalid", 0, st)
    ELSE ES5Zone(toks, i + 8,
                 [st EXCEPT !.time = <<toks[i + 1].v, toks[i + 3].v, toks[i + 5].v,
                                       ReadMilliseconds(toks[i + 7])>>])

\* [-MM[-DD]] after the year: a month or a day that is not two digits in
\* range goes to the legacy parser, the '-' before it dropped.
ES5MonthDay(toks, i, st) ==
    IF ~IsSymbol(Tok(toks, i), "-") THEN ES5Time(toks, i, st)
    ELSE IF ~IsFixedNumber(Tok(toks, i + 1), 2) \/ Tok(toks, i + 1).v \notin 1..12
    THEN ES5Result("legacy", i + 1, st)
    ELSE IF ~IsSymbol(Tok(toks, i + 2), "-")
    THEN ES5Time(toks, i + 2, [st EXCEPT !.day = Append(@, toks[i + 1].v)])
    ELSE IF ~IsFixedNumber(Tok(toks, i + 3), 2) \/ Tok(toks, i + 3).v \notin 1..31
    THEN ES5Result("legacy", i + 3, [st EXCEPT !.day = Append(@, toks[i + 1].v)])
    ELSE ES5Time(toks, i + 4, [st EXCEPT !.day = Append(Append(@, toks[i + 1].v), toks[i + 3].v)])

\* ParseES5DateTime: a sign and a year of six digits, or a year of four
\* digits (anything else is for the legacy parser; -000000 is no year
\* and is skipped).
ParseES5DateTime(toks) ==
    IF IsAsciiSign(Tok(toks, 1))
    THEN (IF ~IsFixedNumber(Tok(toks, 2), 6) THEN ES5Result("legacy", 1, Composers)
          ELSE IF toks[1].k = "-" /\ toks[2].v = 0 THEN ES5Result("legacy", 3, Composers)
          ELSE ES5MonthDay(toks, 3,
                           [Composers EXCEPT !.day = <<IF toks[1].k = "-" THEN -toks[2].v
                                                       ELSE toks[2].v>>]))
    ELSE IF IsFixedNumber(Tok(toks, 1), 4)
    THEN ES5MonthDay(toks, 2, [Composers EXCEPT !.day = <<toks[1].v>>])
    ELSE ES5Result("legacy", 1, Composers)

\* TimeComposer::IsExpecting(n)
TimeIsExpecting(st, n) ==
    \/ (Len(st.time) = 1 /\ n <= 59)
    \/ (Len(st.time) = 2 /\ n <= 59)
    \/ (Len(st.time) = 3 /\ n <= 999)

\* TimeComposer::AddFinal(n): n when there is room for it, then zeros.
TimeAddFinal(time, n) ==
    IF Len(time) >= 4 THEN time
    ELSE [k \in 1..4 |-> IF k <= Len(time) THEN time[k] ELSE IF k = Len(time) + 1 THEN n ELSE 0]

Failed(st) == [st EXCEPT !.ok = FALSE]

RECURSIVE LegacyParse(_, _, _)
\* The loop of DateParser::Parse over the tokens from position i.
LegacyParse(toks, i, st) ==
    IF i > Len(toks) THEN st
    ELSE IF toks[i].t = "num"
    THEN (IF IsSymbol(Tok(toks, i + 1), ":")
          THEN (IF IsSymbol(Tok(toks, i + 2), ":")
                THEN (IF st.time # <<>> THEN Failed(st)
                      ELSE LegacyParse(toks, i + 3,
                                       [st EXCEPT !.read = TRUE, !.time = <<toks[i].v, 0>>]))
                ELSE IF Len(st.time) >= 4 THEN Failed(st)
                ELSE LegacyParse(toks, IF IsSymbol(Tok(toks, i + 2), ".") THEN i + 3 ELSE i + 2,
                                 [st EXCEPT !.read = TRUE, !.time = Append(@, toks[i].v)]))
          ELSE IF IsSymbol(Tok(toks, i + 1), ".") /\ TimeIsExpecting(st, toks[i].v)
          THEN (IF Tok(toks, i + 2).t # "num" THEN Failed(st)
                ELSE LegacyParse(toks, i + 3,
                                 [st EXCEPT !.read = TRUE,
                                            !.time = TimeAddFinal(Append(@, toks[i].v),
                                                                  ReadMilliseconds(toks[i + 2]))]))
          ELSE IF st.tzHour # -1 /\ st.tzMinute = -1 /\ toks[i].v <= 59
          THEN LegacyParse(toks, IF IsSymbol(Tok(toks, i + 1), ".") THEN i + 2 ELSE i + 1,
                           [st EXCEPT !.read = TRUE, !.tzMinute = toks[i].v])
          ELSE IF TimeIsExpecting(st, toks[i].v)
          THEN (IF \E peek \in {Tok(toks, IF IsSymbol(Tok(toks, i + 1), ".") THEN i + 2 ELSE i + 1)} :
                       peek.t \notin {"end", "ws"} /\ ~IsKeywordZ(peek) /\ ~IsAsciiSign(peek)
                THEN Failed(st)
                ELSE LegacyParse(toks, IF IsSymbol(Tok(toks, i + 1), ".") THEN i + 2 ELSE i + 1,
                                 [st EXCEPT !.read = TRUE, !.time = TimeAddFinal(@, toks[i].v)]))
          ELSE IF Len(st.day) >= 3 THEN Failed(st)
          ELSE LegacyParse(toks,
                           (IF IsSymbol(Tok(toks, i + 1), ".") THEN i + 2 ELSE i + 1)
                               + (IF IsSymbol(Tok(toks, IF IsSymbol(Tok(toks, i + 1), ".")
                                                        THEN i + 2 ELSE i + 1), "-")
                                  THEN 1 ELSE 0),
                           [st EXCEPT !.read = TRUE, !.day = Append(@, toks[i].v)]))
    ELSE IF toks[i].t = "word"
    THEN (IF toks[i].k = "AM_PM" /\ st.time # <<>>
          THEN LegacyParse(toks, i + 1, [st EXCEPT !.hourOffset = toks[i].v])
          ELSE IF toks[i].k = "MONTH_NAME"
          THEN LegacyParse(toks, IF IsSymbol(Tok(toks, i + 1), "-") THEN i + 2 ELSE i + 1,
                           [st EXCEPT !.month = toks[i].v])
          ELSE IF toks[i].k = "TIME_ZONE_NAME" /\ st.read
          THEN LegacyParse(toks, i + 1, TzSet(st, toks[i].v))
          ELSE IF st.read \/ Tok(toks, i + 1).t = "num" THEN Failed(st)
          ELSE LegacyParse(toks, i + 1, st))
    ELSE IF IsAsciiSign(toks[i]) /\ ((st.tzHour = 0 /\ st.tzMinute = 0) \/ st.time # <<>>)
    THEN (IF Tok(toks, i + 1).t = "num"
          THEN (IF IsSymbol(Tok(toks, i + 2), ":")
                THEN LegacyParse(toks, i + 2,
                                 [st EXCEPT !.read = TRUE,
                                            !.tzSign = IF toks[i].k = "+" THEN 1 ELSE -1,
                                            !.tzHour = toks[i + 1].v, !.tzMinute = -1])
                ELSE IF toks[i + 1].len \in {1, 2}
                THEN LegacyParse(toks, i + 2,
                                 [st EXCEPT !.read = TRUE,
                                            !.tzSign = IF toks[i].k = "+" THEN 1 ELSE -1,
                                            !.tzHour = toks[i + 1].v, !.tzMinute = 0])
                ELSE IF toks[i + 1].len \in {3, 4}
                THEN LegacyParse(toks, i + 2,
                                 [st EXCEPT !.read = TRUE,
                                            !.tzSign = IF toks[i].k = "+" THEN 1 ELSE -1,
                                            !.tzHour = toks[i + 1].v \div 100,
                                            !.tzMinute = toks[i + 1].v % 100])
                ELSE Failed(st))
          ELSE IF IsSymbol(Tok(toks, i + 1), ":")
          THEN LegacyParse(toks, i + 1,
                           [st EXCEPT !.read = TRUE,
                                      !.tzSign = IF toks[i].k = "+" THEN 1 ELSE -1,
                                      !.tzHour = 0, !.tzMinute = -1])
          ELSE Failed(st))
    ELSE IF (IsAsciiSign(toks[i]) \/ IsSymbol(toks[i], ")")) /\ st.read THEN Failed(st)
    ELSE LegacyParse(toks, i + 1, st)

\* DayComposer::Write: [ok, year, month, day].  Missing numbers are 1;
\* with no named month the numbers are year, month, day when the day is
\* an ISO date or the first number is no day of a month, and month, day,
\* year otherwise; a year below 100 of a date that is not ISO is in 1950
\* to 2049.
DayWrite(st) ==
    CHOOSE r \in
        {IF st.day = <<>> \/ ymd[2] \notin 1..12 \/ ymd[3] \notin 1..31
         THEN [ok |-> FALSE, year |-> 0, month |-> 0, day |-> 0]
         ELSE [ok |-> TRUE,
               year |-> IF st.iso \/ ymd[1] < 0 \/ ymd[1] > 99 THEN ymd[1]
                        ELSE IF ymd[1] <= 49 THEN ymd[1] + 2000 ELSE ymd[1] + 1900,
               month |-> ymd[2], day |-> ymd[3]]
         : ymd \in {IF st.month = 0
                    THEN (IF st.iso \/ comp[1] \notin 1..31
                          THEN <<comp[1], comp[2], comp[3]>>
                          ELSE <<comp[3], comp[1], comp[2]>>)
                    ELSE IF comp[1] \notin 1..31
                    THEN <<comp[1], st.month, comp[2]>>
                    ELSE <<comp[2], st.month, comp[1]>>
                    : comp \in {[k \in 1..3 |-> IF k <= Len(st.day) THEN st.day[k] ELSE 1]}}} : TRUE

\* TimeComposer::Write: [ok, ms], ms the milliseconds the time makes.
\* Missing numbers are 0; with AM or PM the hour is in 0..12 and counts
\* modulo 12 from the offset; 24:00:00.000 is a time.
TimeWrite(st) ==
    CHOOSE r \in
        {IF \/ (st.hourOffset # -1 /\ hms[1] > 12)
            \/ ((hour > 23 \/ hms[2] > 59 \/ hms[3] > 59 \/ hms[4] > 999)
                    /\ (hour # 24 \/ hms[2] # 0 \/ hms[3] # 0 \/ hms[4] # 0))
         THEN [ok |-> FALSE, ms |-> 0]
         ELSE [ok |-> TRUE, ms |-> hour * 3600000 + hms[2] * 60000 + hms[3] * 1000 + hms[4]]
         : hms \in {[k \in 1..4 |-> IF k <= Len(st.time) THEN st.time[k] ELSE 0]},
           hour \in {IF st.hourOffset = -1 THEN (IF st.time = <<>> THEN 0 ELSE st.time[1])
                     ELSE (st.time[1] % 12) + st.hourOffset}} : TRUE

\* hour * 3600 modulo 2^32, as 16 times this number (below 2^28).
HourSeconds16(hour) ==
    ((((((((hour % 268435456) * 5) % 268435456) * 5) % 268435456) * 3) % 268435456) * 3)
        % 268435456

\* TimeZoneComposer::Write: [ok, local, seconds].  No sign is local time.
\* hour * 3600 + minute * 60 is computed in 32 bits and is no offset when
\* it exceeds the greatest small integer (2^31 - 1).
TzWrite(st) ==
    IF st.tzSign = 0 THEN [ok |-> TRUE, local |-> TRUE, seconds |-> 0]
    ELSE CHOOSE r \in
        {IF z < 134217728
         THEN (IF 15 * m >= 4 * (134217728 - z)
               THEN [ok |-> FALSE, local |-> FALSE, seconds |-> 0]
               ELSE [ok |-> TRUE, local |-> FALSE, seconds |-> st.tzSign * (16 * z + 60 * m)])
         ELSE (IF 15 * m >= 4 * (268435456 - z)
               THEN [ok |-> TRUE, local |-> FALSE,
                     seconds |-> st.tzSign * (60 * m - 16 * (268435456 - z))]
               ELSE [ok |-> FALSE, local |-> FALSE, seconds |-> 0])
         : z \in {IF st.tzHour = -1 THEN 0 ELSE HourSeconds16(st.tzHour)},
           m \in {IF st.tzMinute = -1 THEN 0 ELSE st.tzMinute}} : TRUE

\* The time value of the composers: MakeDay and MakeTime in local time or
\* at the offset of the zone, and TimeClip.
ComposedDate(st) ==
    CHOOSE r \in
        {IF ~st.ok \/ ~d.ok \/ ~t.ok \/ ~z.ok THEN InvalidDate
         ELSE IF z.local THEN MakeDayTime(d.year, d.month - 1, d.day, t.ms - LocalTZA)
         ELSE MakeDayTime(d.year, d.month - 1, d.day - (z.seconds \div 86400),
                          t.ms - ((z.seconds % 86400) * 1000))
         : d \in {DayWrite(st)}, t \in {TimeWrite(st)}, z \in {TzWrite(st)}} : TRUE

\* DateParser::Parse on the tokens
ParseTokens(toks) ==
    CHOOSE r \in
        {IF es5.status = "invalid" THEN InvalidDate
         ELSE IF es5.status = "done" THEN ComposedDate(es5.st)
         ELSE ComposedDate(LegacyParse(toks, es5.at,
                                       [es5.st EXCEPT !.read = (es5.st.day # <<>>)]))
         : es5 \in {ParseES5DateTime(toks)}} : TRUE

\* new Date(s) for a string s
NewDateFromString(s) == CHOOSE r \in {ParseTokens(toks) : toks \in {DateTokens(UpToNul(s))}} : TRUE

\* new Date(value) for a cell value
NewDate(cell) == IF cell.kind = "date" THEN cell.date ELSE NewDateFromString(cell.text)

\* The object literal getErrorEvents builds from data[i] (i is the index
\* in data, whose row 0 is the header), with end set when row[2] is truthy.
RowToEvent(row, i) ==
    [hasTitle |-> TRUE, title |-> row.title,
     hasStart |-> TRUE, start |-> NewDate(row.start),
     hasEnd |-> Truthy(row.end),
     end |-> IF Truthy(row.end) THEN NewDate(row.end) ELSE InvalidDate,
     isAllDay |-> IF row.isAllDay = StrTRUE THEN "true" ELSE "false",
     description |-> row.description, location |-> row.location,
     rowIndex |-> i + 1]

\* if (row[0] && row[1])
RowUsable(row) == row.title # <<>> /\ Truthy(row.start)

RECURSIVE ErrorEventsLoop(_, _, _)
\* The for loop of getErrorEvents over the data rows.
ErrorEventsLoop(rows, i, errorEvents) ==
    IF i > Len(rows) THEN errorEvents
    ELSE ErrorEventsLoop(rows, i + 1,
                         IF RowUsable(rows[i])
                         THEN Append(errorEvents, RowToEvent(rows[i], i))
                         ELSE errorEvents)

\* getErrorEvents whose loop ends at the first row without title or start.
getErrorEventsStopAtBadRow(rows, sheetOk) ==
    LET RECURSIVE Loop(_, _)
        Loop(i, errorEvents) ==
            IF i > Len(rows) \/ ~RowUsable(rows[i]) THEN errorEvents
            ELSE Loop(i + 1, Append(errorEvents, RowToEvent(rows[i], i)))
    IN  IF ~sheetOk THEN <<>> ELSE Loop(1, <<>>)

\* getErrorEvents(): rows are the data rows of the sheet; sheetOk = FALSE
\* is an exception of getOrCreateErrorSheet or getValues, which the outer
\* catch turns into [].
getErrorEvents(rows, sheetOk) ==
    IF ~sheetOk THEN <<>>
    ELSE IF Len(rows) = 0 THEN <<>>
    ELSE ErrorEventsLoop(rows, 1, <<>>)

\* The row recordError appends for a failed event.
ErrorRow(event, errorMessage) ==
    [title |-> event.title,
     start |-> DateCell(event.start),
     end |-> IF event.hasEnd THEN DateCell(event.end) ELSE TextCell(<<>>),
     isAllDay |-> IF event.isAllDay = "true" THEN StrTRUE ELSE StrFALSE,
     description |-> event.description,
     location |-> event.location,
     error |-> errorMessage]

\* recordError(sheet, event, errorMessage): appendOk = FALSE is an
\* exception of appendRow, which recordError catches and logs.
recordError(rows, event, errorMessage, appendOk) ==
    IF appendOk THEN Append(rows, ErrorRow(event, errorMessage)) ELSE rows

\* if (errorSheet.getLastRow() > 1)
\*   errorSheet.getRange(2, 1, errorSheet.getLastRow() - 1, 7).clear()
clearDataRows(rows) == <<>>

RECURSIVE DropKeys(_, _)
DropKeys(evs, keys) ==
    IF evs = <<>> THEN <<>>
    ELSE (IF generateEventKey(Head(evs)) \in keys THEN <<>> ELSE <<Head(evs)>>)
             \o DropKeys(Tail(evs), keys)

\* A merge that leaves out the retried records whose key a fresh record has.
mergeRetryDeduplicated(fresh, retried) ==
    fresh \o DropKeys(retried, {generateEventKey(fresh[k]) : k \in 1..Len(fresh)})

\* [...eventsToCreate, ...errorEvents]
mergeRetry(fresh, retried) == fresh \o retried

\* date.getTime() + ms
AddMs(date, ms) == IF date.valid THEN MakeTimeValue(date.day, date.ms + ms) ELSE InvalidDate

\* createCalendarEvent(calendar, event): the entry the store gains
CalendarEntry(event) ==
    [title |-> event.title,
     start |-> event.start,
     end |-> IF event.hasEnd THEN event.end
             ELSE IF event.isAllDay = "true"
             THEN AddMs(event.start, 24 * 60 * 60 * 1000)
             ELSE AddMs(event.start, 60 * 60 * 1000),
     isAllDay |-> event.isAllDay = "true",
     description |-> event.description,
     location |-> event.location]

\* calendar.getEvents(start, end): the entries that overlap the window
RECURSIVE GetEvents(_, _, _)
GetEvents(store, from, to) ==
    IF store = <<>> THEN <<>>
    ELSE (IF DateLT(Head(store).start, to) /\ DateLT(from, Head(store).end)
          THEN <<Head(store)>> ELSE <<>>) \o GetEvents(Tail(store), from, to)

\* The key getExistingCalendarEvents builds for an entry of the store
ExistingKey(entry) ==
    formatDateKey(entry.start) \o <<"|">> \o Trim(ToLowerCase(entry.title))

\* getExistingCalendarEvents without the early return for a missing range.
getExistingCalendarEventsUnguarded(events, store) ==
    LET dateRange == getEventDateRange(events)
        found == GetEvents(store, dateRange.start, dateRange.end)
    IN  [keys |-> {ExistingKey(found[k]) : k \in 1..Len(found)},
         queried |-> TRUE, range |-> dateRange]

\* getExistingCalendarEvents(events): [keys, queried, range]; queried
\* tells whether calendar.getEvents was called.
getExistingCalendarEvents(events, store) ==
    LET dateRange == getEventDateRange(events)
        found == GetEvents(store, dateRange.start, dateRange.end)
    IN  IF ~dateRange.has
        THEN [keys |-> {}, queried |-> FALSE, range |-> dateRange]
        ELSE [keys |-> {ExistingKey(found[k]) : k \in 1..Len(found)},
              queried |-> TRUE, range |-> dateRange]

(* ------------------------------------------------------------------ *)
(* Inputs of the import: files, stored events, ledger rows             *)
(* ------------------------------------------------------------------ *)
\* Records as parseIcsContent emits them: a title, a start and the flag,
\* with no end, description or location.
\* BEGIN:VEVENT / SUMMARY:Standup / DTSTART;VALUE=DATE:20240105 / END:VEVENT
StandupAllDay ==
    [NewEvent EXCEPT !.hasTitle = TRUE, !.title = StrStandup, !.hasStart = TRUE,
                     !.start = MakeTimeValue(DaysFromCivil(2024, 1, 5), 0 - LocalTZA),
                     !.isAllDay = "true"]
\* SUMMARY:Standup / DTSTART:20240105T100000
StandupMorning ==
    [NewEvent EXCEPT !.hasTitle = TRUE, !.title = StrStandup, !.hasStart = TRUE,
                     !.start = MakeTimeValue(DaysFromCivil(2024, 1, 5), 10 * 3600000 - LocalTZA),
                     !.isAllDay = "false"]
\* The afternoon standup, its title in lower case between an ideographic
\* space and a space (SUMMARY / DTSTART:20240105T150000).
StandupAfternoon ==
    [NewEvent EXCEPT !.hasTitle = TRUE,
                     !.title = <<"U+3000", "s", "t", "a", "n", "d", "u", "p", " ">>,
                     !.hasStart = TRUE,
                     !.start = MakeTimeValue(DaysFromCivil(2024, 1, 5), 15 * 3600000 - LocalTZA),
                     !.isAllDay = "false"]
\* SUMMARY:Standup / DTSTART:20240105T160000Z
StandupUtcEvening ==
    [NewEvent EXCEPT !.hasTitle = TRUE, !.title = StrStandup, !.hasStart = TRUE,
                     !.start = MakeTimeValue(DaysFromCivil(2024, 1, 5), 16 * 3600000),
                     !.isAllDay = "false"]
\* SUMMARY:Sync / DTSTART:20240201T100000
SyncFeb ==
    [NewEvent EXCEPT !.hasTitle = TRUE, !.title = StrSync, !.hasStart = TRUE,
                     !.start = MakeTimeValue(DaysFromCivil(2024, 2, 1), 10 * 3600000 - LocalTZA),
                     !.isAllDay = "false"]

\* SUMMARY:Ab / DTSTART;VALUE=DATE:2024: parseInt of the missing month and
\* day is NaN, the start is the Invalid Date, and the record is emitted
\* (an Invalid Date object is truthy).
AbNoDay ==
    [NewEvent EXCEPT !.hasTitle = TRUE, !.title = <<"A", "b">>, !.hasStart = TRUE,
                     !.start = InvalidDate, !.isAllDay = "true"]

EventPool == {StandupAllDay, StandupMorning, StandupAfternoon, StandupUtcEvening, SyncFeb}
\* The records the pure functions are applied to: one key at two times
\* of day, the day after, another title, and a start that is no date.
FnPool == {StandupAllDay, StandupAfternoon, StandupUtcEvening, SyncFeb, AbNoDay}
KeyPool == {generateEventKey(e) : e \in FnPool}

\* Scenario A: the same all-day block twice.
FileStandupTwice ==
    <<LineBeginCalendar,
      BEGIN_VEVENT, LineSummaryStandup, LineStartDate, END_VEVENT,
      BEGIN_VEVENT, LineSummaryStandup, LineStartDate, END_VEVENT,
      LineEndCalendar>>
\* Two timed events of one title and day, and a third event.
FileSameDay ==
    <<BEGIN_VEVENT, LineSummaryStandup, LineStartTime, END_VEVENT,
      BEGIN_VEVENT, LineSummaryStandupLoose, LineStartAfternoon, END_VEVENT,
      BEGIN_VEVENT, LineSummarySync, LineStartFeb, END_VEVENT>>
FileEmpty == <<LineBeginCalendar, LineEndCalendar>>
\* A start without a time part: parseIcsDateTime raises.
FileBroken == <<BEGIN_VEVENT, LineSummary, LineStartNoTime, END_VEVENT>>
Files == {FileStandupTwice, FileSameDay, FileEmpty, FileBroken}

CalendarPool == {<<>>, <<CalendarEntry(StandupAllDay)>>}

\* Scenario C: ("Sync", "2024-02-01T10:00:00", "", "FALSE", "", "", "API error")
RowSync ==
    [title |-> StrSync, start |-> TextCell(StrSyncStart), end |-> TextCell(<<>>),
     isAllDay |-> StrFALSE, description |-> <<>>, location |-> <<>>,
     error |-> StrApiError]
\* The row an earlier run recorded for a failed creation.
RowStandup == ErrorRow(StandupMorning, StrApiError)
RowNoTitle == [RowSync EXCEPT !.title = <<>>]
RowNoStart == [RowStandup EXCEPT !.start = TextCell(<<>>)]
RowPool == {RowSync, RowStandup, RowNoTitle, RowNoStart}

(* ------------------------------------------------------------------ *)
(* State                                                               *)
(* ------------------------------------------------------------------ *)
BATCH_SIZE == 10

VARIABLES
    pst,            \* parseIcsContent: currentEvent, inEvent, events
    phys,           \* the physical lines the last loop iteration consumed
    line,           \* the logical line the last loop iteration built from them
    nread,          \* physical lines consumed so far (the loop index i)
    ppc,            \* parseIcsContent: "loop", "returned" or "threw"
    blk,            \* what the lines since the last BEGIN:VEVENT were
    emittedBlk,     \* blk at the END:VEVENT of each emitted record
    entry,          \* the entry point running: "none", "import" or "test"
    pc,             \* its position
    file,           \* the lines of the ICS file in the drive
    calendar,       \* the calendar store: its entries in creation order
    ledger,         \* the data rows of the error sheet (below the header)
    batchSize,      \* CONFIG.BATCH_SIZE
    events,         \* importIcsToCalendar: events
    uniqueEvents,   \* uniqueEvents
    existingKeys,   \* existingEvents (the key set)
    dateRange,      \* getExistingCalendarEvents: dateRange
    queried,        \* whether calendar.getEvents was called
    eventsToCreate, \* eventsToCreate
    errorEvents,    \* errorEvents
    toProcess,      \* allEventsToProcess, the argument of processEventsInBatches
    result,         \* processEventsInBatches: result
    bi,             \* the batch loop's i
    bj,             \* the position of forEach inside the batch
    attempted,      \* the events createCalendarEvent was called for, in order
    failedEvents,   \* those among them whose creation raised, in order
    recorded,       \* those among the failed whose row appendRow appended
    ledgerAtRead,   \* the data rows when getErrorEvents read the sheet
    sheetRead,      \* whether that read succeeded
    runs,           \* entry point invocations so far
    faults,         \* collaborator failures so far
    originalBatchSize, \* testImport: originalBatchSize
    ledgerAtStart,  \* the data rows when the running entry point was entered
    preexisting,    \* how many entries the calendar held before the first run
    fdone           \* the functions applied so far (function-level runs)

parseVars == <<pst, phys, line, nread, ppc, blk, emittedBlk>>
storeVars == <<file, calendar, ledger, batchSize>>
localVars == <<events, uniqueEvents, existingKeys, dateRange, queried, eventsToCreate,
               errorEvents, toProcess, ledgerAtRead, sheetRead>>
batchVars == <<result, bi, bj, attempted, failedEvents, recorded>>
runVars == <<entry, pc, runs, faults>>
entryVars == <<originalBatchSize, ledgerAtStart, preexisting>>
vars == <<parseVars, storeVars, localVars, batchVars, runVars, entryVars, fdone>>

\* Record of the property lines read since the last BEGIN:VEVENT.
BlockStart ==
    [summarySeen |-> FALSE, titleSet |-> FALSE, startSeen |-> FALSE,
     lastStart |-> "none", lastEnd |-> "none",
     descriptionSeen |-> FALSE, locationSeen |-> FALSE,
     nested |-> FALSE, droppedProps |-> FALSE]

\* The block record after one more logical line.
Observe(b, l) ==
    IF l = BEGIN_VEVENT THEN BlockStart
    ELSE IF StartsWith(l, PFX_SUMMARY)
    THEN [b EXCEPT !.summarySeen = TRUE,
                   !.titleSet = @ \/ Trim(SubSeq(l, Len(PFX_SUMMARY) + 1, Len(l))) # <<>>]
    ELSE IF StartsWith(l, PFX_DTSTART_DATE)
    THEN [b EXCEPT !.startSeen = TRUE, !.lastStart = "date"]
    ELSE IF StartsWith(l, PFX_DTSTART)
    THEN [b EXCEPT !.startSeen = TRUE, !.lastStart = "datetime"]
    ELSE IF StartsWith(l, PFX_DTEND_DATE) THEN [b EXCEPT !.lastEnd = "date"]
    ELSE IF StartsWith(l, PFX_DTEND) THEN [b EXCEPT !.lastEnd = "datetime"]
    ELSE IF StartsWith(l, PFX_DESCRIPTION) THEN [b EXCEPT !.descriptionSeen = TRUE]
    ELSE IF StartsWith(l, PFX_LOCATION) THEN [b EXCEPT !.locationSeen = TRUE]
    ELSE b

\* The block record after a BEGIN:VEVENT read while inEvent was already
\* true: a new block, which remembers that it replaced an unfinished one
\* and whether that one had read any property line (also one with an
\* empty value).
ObserveNested(b) ==
    [BlockStart EXCEPT !.nested = TRUE,
                       !.droppedProps = \/ b.summarySeen \/ b.startSeen
                                        \/ b.lastEnd # "none"
                                        \/ b.descriptionSeen \/ b.locationSeen]

ParseInit ==
    /\ pst = ParserStart
    /\ phys = <<>>
    /\ line = <<>>
    /\ nread = 0
    /\ ppc = "loop"
    /\ blk = BlockStart
    /\ emittedBlk = <<>>

LocalsInit ==
    /\ events = <<>>
    /\ uniqueEvents = <<>>
    /\ existingKeys = {}
    /\ dateRange = NoRange
    /\ queried = FALSE
    /\ eventsToCreate = <<>>
    /\ errorEvents = <<>>
    /\ toProcess = <<>>
    /\ ledgerAtRead = <<>>
    /\ sheetRead = FALSE

BatchInit ==
    /\ result = [created |-> 0, skipped |-> 0, errors |-> 0]
    /\ bi = 0
    /\ bj = 0
    /\ attempted = <<>>
    /\ failedEvents = <<>>
    /\ recorded = <<>>

RunInit ==
    /\ entry = "none"
    /\ pc = "idle"
    /\ runs = 0
    /\ faults = 0

\* No entry point has run: the calendar holds what it held before.
EntryInit ==
    /\ originalBatchSize = BATCH_SIZE
    /\ ledgerAtStart = <<>>
    /\ preexisting = Len(calendar)

(* ------------------------------------------------------------------ *)
(* parseIcsContent, one loop iteration at a time                       *)
(* ------------------------------------------------------------------ *)
\* One iteration of the for loop of parseIcsContent: lines[i] is trimmed,
\* the continuation lines that follow it are joined, and the logical line
\* is dispatched.  An exception of parseIcsDateTime leaves the function.
ParseIteration ==
    /\ ppc = "loop"
    /\ \E first \in (IF nread = 0 THEN FirstLines ELSE PlainLines),
          conts \in SeqsUpTo(FoldLines, MaxFold) :
          LET ph == <<first>> \o conts
              l == UnfoldLine(ph)
              st == LoopBody(pst, l)
          IN  /\ nread + Len(ph) <= MaxLines
              /\ phys' = ph
              /\ line' = l
              /\ nread' = nread + Len(ph)
              /\ pst' = st
              /\ ppc' = IF st.threw THEN "threw" ELSE "loop"
              /\ blk' = IF l = BEGIN_VEVENT /\ pst.inEvent
                        THEN ObserveNested(blk)
                        ELSE Observe(blk, l)
              /\ emittedBlk' = IF Len(st.events) > Len(pst.events)
                               THEN Append(emittedBlk, blk) ELSE emittedBlk
    /\ UNCHANGED <<storeVars, localVars, batchVars, runVars, entryVars, fdone>>

\* The loop ends at the end of the content: return events.
ParseReturn ==
    /\ ppc = "loop"
    /\ ppc' = "returned"
    /\ UNCHANGED <<pst, phys, line, nread, blk, emittedBlk>>
    /\ UNCHANGED <<storeVars, localVars, batchVars, runVars, entryVars, fdone>>

ParseNext == ParseIteration \/ ParseReturn

SpecParseInit ==
    /\ ParseInit /\ LocalsInit /\ BatchInit /\ RunInit
    /\ file = <<>> /\ calendar = <<>> /\ ledger = <<>> /\ batchSize = BATCH_SIZE
    /\ fdone = {}
    /\ EntryInit

SpecParse == SpecParseInit /\ [][ParseNext]_vars

(* ------------------------------------------------------------------ *)
(* importIcsToCalendar, one call at a time                             *)
(* ------------------------------------------------------------------ *)
\* A collaborator call either succeeds or, while failures are left to
\* inject, raises.
Outcomes == IF faults < MaxFaults THEN {TRUE, FALSE} ELSE {TRUE}
Fault(ok) == faults' = IF ok THEN faults ELSE faults + 1

\* No entry point is running: none was called yet, or the last one
\* returned or raised.  (importIcsToCalendar ends when
\* processEventsInBatches has returned, testImport goes on after it.)
RunEnded ==
    \/ pc \in {"idle", "failed", "caught", "tested", "cleared"}
    \/ pc = "done" /\ entry = "import"

\* importIcsToCalendar is entered and calls loadAndParseIcsFile.  An
\* exception of the drive or of the parser is logged and rethrown.
ImportLoad ==
    /\ RunEnded
    /\ runs < MaxRuns
    /\ runs' = runs + 1
    /\ entry' = "import"
    /\ \E driveOk \in Outcomes, r \in {parseIcsContent(file)} :
          /\ Fault(driveOk)
          /\ events' = IF driveOk /\ ~r.threw THEN r.events ELSE <<>>
          /\ pc' = IF driveOk /\ ~r.threw THEN "parsed" ELSE "failed"
    /\ uniqueEvents' = <<>>
    /\ existingKeys' = {}
    /\ dateRange' = NoRange
    /\ queried' = FALSE
    /\ eventsToCreate' = <<>>
    /\ errorEvents' = <<>>
    /\ toProcess' = <<>>
    /\ ledgerAtRead' = <<>>
    /\ sheetRead' = FALSE
    /\ result' = [created |-> 0, skipped |-> 0, errors |-> 0]
    /\ bi' = 0
    /\ bj' = 0
    /\ attempted' = <<>>
    /\ failedEvents' = <<>>
    /\ recorded' = <<>>
    /\ ledgerAtStart' = ledger
    /\ UNCHANGED <<originalBatchSize, preexisting>>
    /\ UNCHANGED <<parseVars, storeVars, fdone>>

\* const uniqueEvents = removeDuplicateEvents(events)
ImportDedup ==
    /\ entry = "import" /\ pc = "parsed"
    /\ uniqueEvents' = removeDuplicateEvents(events)
    /\ pc' = "deduped"
    /\ UNCHANGED <<events, existingKeys, dateRange, queried, eventsToCreate,
                   errorEvents, toProcess, ledgerAtRead, sheetRead>>
    /\ UNCHANGED <<parseVars, storeVars, batchVars, entry, runs, faults, entryVars, fdone>>

\* const existingEvents = getExistingCalendarEvents(uniqueEvents).  The
\* call raises where a collaborator raises: in getCalendarById, before the
\* range is computed, or in calendar.getEvents, which is only called with
\* a range; importIcsToCalendar logs and rethrows.
ImportExisting ==
    /\ entry = "import" /\ pc = "deduped"
    /\ \E r \in {getExistingCalendarEvents(uniqueEvents, calendar)} :
       \E raised \in {"none", "getCalendarById", "getEvents"} :
          /\ raised # "none" => faults < MaxFaults
          /\ raised = "getEvents" => r.queried
          /\ Fault(raised = "none")
          /\ existingKeys' = IF raised = "none" THEN r.keys ELSE {}
          /\ dateRange' = IF raised = "getCalendarById" THEN NoRange ELSE r.range
          /\ queried' = (raised # "getCalendarById" /\ r.queried)
          /\ pc' = IF raised = "none" THEN "existing" ELSE "failed"
    /\ UNCHANGED <<events, uniqueEvents, eventsToCreate, errorEvents, toProcess,
                   ledgerAtRead, sheetRead>>
    /\ UNCHANGED <<parseVars, storeVars, batchVars, entry, runs, entryVars, fdone>>

\* const eventsToCreate = filterEventsToCreate(uniqueEvents, existingEvents)
ImportFilter ==
    /\ entry = "import" /\ pc = "existing"
    /\ eventsToCreate' = filterEventsToCreate(uniqueEvents, existingKeys)
    /\ pc' = "filtered"
    /\ UNCHANGED <<events, uniqueEvents, existingKeys, dateRange, queried,
                   errorEvents, toProcess, ledgerAtRead, sheetRead>>
    /\ UNCHANGED <<parseVars, storeVars, batchVars, entry, runs, faults, entryVars, fdone>>

\* const errorEvents = getErrorEvents();
\* const allEventsToProcess = [...eventsToCreate, ...errorEvents]
ImportErrors ==
    /\ entry = "import" /\ pc = "filtered"
    /\ \E sheetOk \in Outcomes :
          LET got == getErrorEvents(ledger, sheetOk)
          IN  /\ Fault(sheetOk)
              /\ errorEvents' = got
              /\ toProcess' = mergeRetry(eventsToCreate, got)
              /\ sheetRead' = sheetOk
    /\ ledgerAtRead' = ledger
    /\ pc' = "merged"
    /\ UNCHANGED <<events, uniqueEvents, existingKeys, dateRange, queried, eventsToCreate>>
    /\ UNCHANGED <<parseVars, storeVars, batchVars, entry, runs, entryVars, fdone>>

(* ------------------------------------------------------------------ *)
(* processEventsInBatches                                              *)
(* ------------------------------------------------------------------ *)
\* The function is entered: the calendar and the sheet are fetched and the
\* data rows of the sheet are cleared.  An exception of a collaborator
\* leaves the function before anything is cleared; importIcsToCalendar
\* rethrows it, testImport catches and logs it.
ProcessBegin ==
    /\ pc = "merged"
    /\ \E sheetOk \in Outcomes :
          /\ Fault(sheetOk)
          /\ ledger' = IF sheetOk THEN clearDataRows(ledger) ELSE ledger
          /\ pc' = IF sheetOk THEN "processing"
                   ELSE IF entry = "test" THEN "caught" ELSE "failed"
    /\ result' = [created |-> 0, skipped |-> 0, errors |-> 0]
    /\ bi' = 0
    /\ bj' = 0
    /\ attempted' = <<>>
    /\ failedEvents' = <<>>
    /\ recorded' = <<>>
    /\ UNCHANGED <<file, calendar, batchSize>>
    /\ UNCHANGED <<parseVars, localVars, entry, runs, entryVars, fdone>>

\* NextIndex whose for loop steps over one event too many at the end of
\* a batch (i += BATCH_SIZE + 1).
NextIndexSkipping(i, j, n, size) ==
    IF i + j + 1 < Min(i + size, n) THEN [i |-> i, j |-> j + 1]
    ELSE [i |-> i + size + 1, j |-> 0]

\* The loop indices after one more event of the batch: the forEach moves
\* on inside batch = events.slice(i, i + BATCH_SIZE), and at its end the
\* for loop adds BATCH_SIZE to i.
NextIndex(i, j, n, size) ==
    IF i + j + 1 < Min(i + size, n) THEN [i |-> i, j |-> j + 1]
    ELSE [i |-> i + size, j |-> 0]

\* One turn of batch.forEach: createCalendarEvent(calendar, event), and in
\* the catch block result.errors++ and recordError.
ProcessEvent ==
    /\ pc = "processing"
    /\ bi < Len(toProcess)
    /\ LET event == toProcess[bi + bj + 1]
           nxt == NextIndex(bi, bj, Len(toProcess), batchSize)
       IN  /\ \E createOk \in Outcomes :
                 /\ \E appendOk \in (IF createOk \/ faults + 1 >= MaxFaults
                                     THEN {TRUE} ELSE {TRUE, FALSE}) :
                       /\ faults' = faults + (IF createOk THEN 0 ELSE 1)
                                           + (IF appendOk THEN 0 ELSE 1)
                       /\ calendar' = IF createOk
                                      THEN Append(calendar, CalendarEntry(event))
                                      ELSE calendar
                       /\ ledger' = IF createOk THEN ledger
                                    ELSE recordError(ledger, event, StrApiError, appendOk)
                       /\ result' = IF createOk
                                    THEN [result EXCEPT !.created = @ + 1]
                                    ELSE [result EXCEPT !.errors = @ + 1]
                       /\ failedEvents' = IF createOk THEN failedEvents
                                          ELSE Append(failedEvents, event)
                       /\ recorded' = IF ~createOk /\ appendOk
                                      THEN Append(recorded, event) ELSE recorded
           /\ attempted' = Append(attempted, event)
           /\ bi' = nxt.i
           /\ bj' = nxt.j
    /\ pc' = "processing"
    /\ UNCHANGED <<file, batchSize>>
    /\ UNCHANGED <<parseVars, localVars, entry, runs, entryVars, fdone>>

\* The for loop ends: return result (and the caller logs it).
ProcessReturn ==
    /\ pc = "processing"
    /\ bi >= Len(toProcess)
    /\ pc' = "done"
    /\ UNCHANGED <<parseVars, storeVars, localVars, batchVars, entry, runs, faults, entryVars, fdone>>

(* ------------------------------------------------------------------ *)
(* testImport, one call at a time                                      *)
(* ------------------------------------------------------------------ *)
TEST_BATCH_SIZE == 3
TEST_EVENTS == 5

\* events.slice(0, n)
SliceTo(evs, n) == SubSeq(evs, 1, Min(n, Len(evs)))

\* testImport is entered: CONFIG.BATCH_SIZE is saved and set to 3, the
\* file is loaded and parsed and its first five records are kept.  An
\* exception of the drive or of the parser is caught and logged, and
\* testImport returns.
TestLoad ==
    /\ RunEnded
    /\ runs < MaxRuns
    /\ runs' = runs + 1
    /\ entry' = "test"
    /\ originalBatchSize' = batchSize
    /\ batchSize' = TEST_BATCH_SIZE
    /\ \E driveOk \in Outcomes, r \in {parseIcsContent(file)} :
          /\ Fault(driveOk)
          /\ events' = IF driveOk /\ ~r.threw THEN SliceTo(r.events, TEST_EVENTS) ELSE <<>>
          /\ pc' = IF driveOk /\ ~r.threw THEN "parsed" ELSE "caught"
    /\ uniqueEvents' = <<>>
    /\ existingKeys' = {}
    /\ dateRange' = NoRange
    /\ queried' = FALSE
    /\ eventsToCreate' = <<>>
    /\ errorEvents' = <<>>
    /\ toProcess' = <<>>
    /\ ledgerAtRead' = <<>>
    /\ sheetRead' = FALSE
    /\ result' = [created |-> 0, skipped |-> 0, errors |-> 0]
    /\ bi' = 0
    /\ bj' = 0
    /\ attempted' = <<>>
    /\ failedEvents' = <<>>
    /\ recorded' = <<>>
    /\ ledgerAtStart' = ledger
    /\ UNCHANGED <<file, calendar, ledger, preexisting>>
    /\ UNCHANGED <<parseVars, fdone>>

\* const uniqueEvents = removeDuplicateEvents(testEvents)
TestDedup ==
    /\ entry = "test" /\ pc = "parsed"
    /\ uniqueEvents' = removeDuplicateEvents(events)
    /\ pc' = "deduped"
    /\ UNCHANGED <<events, existingKeys, dateRange, queried, eventsToCreate,
                   errorEvents, toProcess, ledgerAtRead, sheetRead>>
    /\ UNCHANGED <<parseVars, storeVars, batchVars, entry, runs, faults, entryVars, fdone>>

\* const existingEvents = getExistingCalendarEvents(uniqueEvents); an
\* exception of getCalendarById or of calendar.getEvents is caught and
\* logged.
TestExisting ==
    /\ entry = "test" /\ pc = "deduped"
    /\ \E r \in {getExistingCalendarEvents(uniqueEvents, calendar)} :
       \E raised \in {"none", "getCalendarById", "getEvents"} :
          /\ raised # "none" => faults < MaxFaults
          /\ raised = "getEvents" => r.queried
          /\ Fault(raised = "none")
          /\ existingKeys' = IF raised = "none" THEN r.keys ELSE {}
          /\ dateRange' = IF raised = "getCalendarById" THEN NoRange ELSE r.range
          /\ queried' = (raised # "getCalendarById" /\ r.queried)
          /\ pc' = IF raised = "none" THEN "existing" ELSE "caught"
    /\ UNCHANGED <<events, uniqueEvents, eventsToCreate, errorEvents, toProcess,
                   ledgerAtRead, sheetRead>>
    /\ UNCHANGED <<parseVars, storeVars, batchVars, entry, runs, entryVars, fdone>>

\* const eventsToCreate = filterEventsToCreate(uniqueEvents, existingEvents)
TestFilter ==
    /\ entry = "test" /\ pc = "existing"
    /\ eventsToCreate' = filterEventsToCreate(uniqueEvents, existingKeys)
    /\ pc' = "filtered"
    /\ UNCHANGED <<events, uniqueEvents, existingKeys, dateRange, queried,
                   errorEvents, toProcess, ledgerAtRead, sheetRead>>
    /\ UNCHANGED <<parseVars, storeVars, batchVars, entry, runs, faults, entryVars, fdone>>

\* if (eventsToCreate.length > 0): processEventsInBatches(eventsToCreate)
\* is called; the ledger was not read.
TestProcess ==
    /\ entry = "test" /\ pc = "filtered"
    /\ Len(eventsToCreate) > 0
    /\ toProcess' = eventsToCreate
    /\ pc' = "merged"
    /\ UNCHANGED <<events, uniqueEvents, existingKeys, dateRange, queried,
                   eventsToCreate, errorEvents, ledgerAtRead, sheetRead>>
    /\ UNCHANGED <<parseVars, storeVars, batchVars, entry, runs, faults, entryVars, fdone>>

\* The else branch, then CONFIG.BATCH_SIZE = originalBatchSize.
TestSkip ==
    /\ entry = "test" /\ pc = "filtered"
    /\ Len(eventsToCreate) = 0
    /\ batchSize' = originalBatchSize
    /\ pc' = "tested"
    /\ UNCHANGED <<file, calendar, ledger>>
    /\ UNCHANGED <<parseVars, localVars, batchVars, entry, runs, faults, entryVars, fdone>>

\* processEventsInBatches has returned: the result is logged and
\* CONFIG.BATCH_SIZE = originalBatchSize.
TestRestore ==
    /\ entry = "test" /\ pc = "done"
    /\ batchSize' = originalBatchSize
    /\ pc' = "tested"
    /\ UNCHANGED <<file, calendar, ledger>>
    /\ UNCHANGED <<parseVars, localVars, batchVars, entry, runs, faults, entryVars, fdone>>

(* ------------------------------------------------------------------ *)
(* clearErrorSheet, run by hand between the other entry points         *)
(* ------------------------------------------------------------------ *)
\* clearErrorSheet(): the data rows of the sheet are cleared; an exception
\* of the sheet is caught and logged and leaves the rows as they are.
ClearErrorSheet ==
    /\ RunEnded
    /\ runs < MaxRuns
    /\ runs' = runs + 1
    /\ entry' = "clear"
    /\ pc' = "cleared"
    /\ \E sheetOk \in Outcomes :
          /\ Fault(sheetOk)
          /\ ledger' = IF sheetOk THEN clearDataRows(ledger) ELSE ledger
    /\ UNCHANGED <<file, calendar, batchSize>>
    /\ UNCHANGED <<parseVars, localVars, batchVars, entryVars, fdone>>

Init ==
    /\ ParseInit /\ LocalsInit /\ BatchInit /\ RunInit
    /\ file \in Files
    /\ calendar \in CalendarPool
    /\ ledger \in SeqsUpTo(RowPool, MaxLedgerRows)
    /\ batchSize = BATCH_SIZE
    /\ fdone = {}
    /\ EntryInit

Next ==
    \/ ImportLoad
    \/ ImportDedup
    \/ ImportExisting
    \/ ImportFilter
    \/ ImportErrors
    \/ ProcessBegin
    \/ ProcessEvent
    \/ ProcessReturn
    \/ TestLoad
    \/ TestDedup
    \/ TestExisting
    \/ TestFilter
    \/ TestProcess
    \/ TestSkip
    \/ TestRestore
    \/ ClearErrorSheet

Spec == Init /\ [][Next]_vars

(* ------------------------------------------------------------------ *)
(* processEventsInBatches on arbitrary lists and batch sizes           *)
(* ------------------------------------------------------------------ *)
\* processEventsInBatches(events) is about to be called with a list of
\* records, a positive CONFIG.BATCH_SIZE and a ledger with or without a
\* row of an earlier run.
BatchCallInit ==
    /\ ParseInit /\ BatchInit
    /\ toProcess \in SeqsUpTo(EventPool \cup {AbNoDay}, MaxEvents)
    /\ batchSize \in 1..MaxBatch
    /\ ledger \in {<<>>, <<RowSync>>}
    /\ file = <<>> /\ calendar = <<>>
    /\ events = <<>>
    /\ uniqueEvents = <<>>
    /\ existingKeys = {}
    /\ dateRange = NoRange
    /\ queried = FALSE
    /\ eventsToCreate = <<>>
    /\ errorEvents = <<>>
    /\ ledgerAtRead = <<>>
    /\ sheetRead = FALSE
    /\ entry = "none"
    /\ pc = "merged"
    /\ runs = 0
    /\ faults = 0
    /\ fdone = {}
    /\ EntryInit

BatchNext == ProcessBegin \/ ProcessEvent \/ ProcessReturn

\* The function runs on one thread and every call in the loop returns or
\* raises (Utilities.sleep returns): a step that can be taken is taken.
SpecBatch == BatchCallInit /\ [][BatchNext]_vars /\ WF_vars(BatchNext)

(* ------------------------------------------------------------------ *)
(* The pure functions applied to arbitrary record sequences            *)
(* ------------------------------------------------------------------ *)
FnInit ==
    /\ ParseInit /\ BatchInit /\ RunInit
    /\ events \in SeqsUpTo(FnPool, MaxEvents)
    /\ existingKeys \in SUBSET KeyPool
    /\ calendar = <<CalendarEntry(StandupAllDay)>>
    /\ uniqueEvents = <<>>
    /\ dateRange = NoRange
    /\ queried = FALSE
    /\ eventsToCreate = <<>>
    /\ errorEvents = <<>>
    /\ toProcess = <<>>
    /\ ledgerAtRead = <<>>
    /\ sheetRead = FALSE
    /\ file = <<>> /\ ledger = <<>> /\ batchSize = BATCH_SIZE
    /\ fdone = {}
    /\ EntryInit

\* uniqueEvents = removeDuplicateEvents(events)
FnDedup ==
    /\ "dedup" \notin fdone
    /\ uniqueEvents' = removeDuplicateEvents(events)
    /\ fdone' = fdone \cup {"dedup"}
    /\ UNCHANGED <<events, existingKeys, dateRange, queried, eventsToCreate,
                   errorEvents, toProcess, ledgerAtRead, sheetRead>>
    /\ UNCHANGED <<parseVars, storeVars, batchVars, runVars, entryVars>>

\* existingKeys = getExistingCalendarEvents(events); a result of
\* filterEventsToCreate for the earlier key set is forgotten.
FnExisting ==
    /\ "existing" \notin fdone
    /\ \E r \in {getExistingCalendarEvents(events, calendar)} :
           /\ existingKeys' = r.keys
           /\ dateRange' = r.range
           /\ queried' = r.queried
    /\ eventsToCreate' = <<>>
    /\ fdone' = (fdone \ {"filter"}) \cup {"existing"}
    /\ UNCHANGED <<events, uniqueEvents, errorEvents, toProcess, ledgerAtRead, sheetRead>>
    /\ UNCHANGED <<parseVars, storeVars, batchVars, runVars, entryVars>>

\* eventsToCreate = filterEventsToCreate(events, existingKeys)
FnFilter ==
    /\ "filter" \notin fdone
    /\ eventsToCreate' = filterEventsToCreate(events, existingKeys)
    /\ fdone' = fdone \cup {"filter"}
    /\ UNCHANGED <<events, uniqueEvents, existingKeys, dateRange, queried,
                   errorEvents, toProcess, ledgerAtRead, sheetRead>>
    /\ UNCHANGED <<parseVars, storeVars, batchVars, runVars, entryVars>>

FnNext == FnDedup \/ FnExisting \/ FnFilter

SpecFn == FnInit /\ [][FnNext]_vars

(* ------------------------------------------------------------------ *)
(* getEventDateRange applied to arbitrary record sequences             *)
(* ------------------------------------------------------------------ *)
RangePool == EventPool \cup {AbNoDay}

RangeInit ==
    /\ ParseInit /\ BatchInit /\ RunInit
    /\ events \in SeqsUpTo(RangePool, MaxEvents)
    /\ uniqueEvents = <<>>
    /\ existingKeys = {}
    /\ dateRange = NoRange
    /\ queried = FALSE
    /\ eventsToCreate = <<>>
    /\ errorEvents = <<>>
    /\ toProcess = <<>>
    /\ ledgerAtRead = <<>>
    /\ sheetRead = FALSE
    /\ file = <<>> /\ calendar = <<>> /\ ledger = <<>> /\ batchSize = BATCH_SIZE
    /\ fdone = {}
    /\ EntryInit

\* dateRange = getEventDateRange(events)
FnRange ==
    /\ "range" \notin fdone
    /\ dateRange' = getEventDateRange(events)
    /\ fdone' = fdone \cup {"range"}
    /\ UNCHANGED <<events, uniqueEvents, existingKeys, queried, eventsToCreate,
                   errorEvents, toProcess, ledgerAtRead, sheetRead>>
    /\ UNCHANGED <<parseVars, storeVars, batchVars, runVars, entryVars>>

SpecRange == RangeInit /\ [][FnRange]_vars

(* ------------------------------------------------------------------ *)
(* Properties of parseIcsContent (checked under SpecParse)             *)
(* ------------------------------------------------------------------ *)
\* C1: parseIcsContent emits a record for a block only if, since the
\* block's last BEGIN:VEVENT, a SUMMARY line set a non-empty title and a
\* DTSTART line set a start; a block without them yields no record, and
\* every emitted record has a non-empty title and a start.
C1_EmitOnlyComplete ==
    /\ Len(emittedBlk) = Len(pst.events)
    /\ \A k \in 1..Len(pst.events) :
          /\ emittedBlk[k].summarySeen /\ emittedBlk[k].titleSet
          /\ emittedBlk[k].startSeen
          /\ pst.events[k].hasTitle /\ pst.events[k].title # <<>>
          /\ pst.events[k].hasStart

\* A record was emitted and the function returned it.
C1_Witness == ppc = "returned" /\ Len(pst.events) = 1

RECURSIVE FoldedOriginal(_)
\* The string a sequence of physical lines was folded from: the first
\* line as it is, then each continuation line without its first character.
FoldedOriginal(ph) ==
    IF Len(ph) = 1 THEN ph[1]
    ELSE FoldedOriginal(SubSeq(ph, 1, Len(ph) - 1))
             \o SubSeq(ph[Len(ph)], 2, Len(ph[Len(ph)]))

\* C4: for a logical line folded across continuation lines, the unfolding
\* loop reproduces exactly the original string: only the leading
\* whitespace character of each continuation line is removed, nothing
\* else (not the whitespace at the end of the first physical line).
C4_UnfoldExact == Len(phys) >= 2 => line = FoldedOriginal(phys)

\* C10: in every emitted record isAllDay is true exactly when the last
\* DTSTART line of its block was DTSTART;VALUE=DATE, and false exactly
\* when it was a date-time DTSTART.
C10_AllDayFollowsLastStart ==
    \A k \in 1..Len(pst.events) :
        /\ k <= Len(emittedBlk)
        /\ (pst.events[k].isAllDay = "true") <=> (emittedBlk[k].lastStart = "date")
        /\ (pst.events[k].isAllDay = "false") <=> (emittedBlk[k].lastStart = "datetime")

\* An all-day record whose block also held a date-time DTEND.
C10_Witness ==
    \E k \in 1..Len(pst.events) :
        /\ pst.events[k].isAllDay = "true"
        /\ emittedBlk[k].lastEnd = "datetime"

\* One loop iteration of parseIcsContent, seen from outside: what the
\* logical line just read did to inEvent, currentEvent and events.
C11_Iteration ==
    nread' # nread =>
        /\ line' = BEGIN_VEVENT =>
               /\ pst'.inEvent /\ pst'.hasCurrent
               /\ pst'.currentEvent = NewEvent
               /\ pst'.events = pst.events
        /\ (line' = END_VEVENT /\ pst.inEvent) =>
               /\ ~pst'.inEvent
               /\ pst'.events \in {pst.events, Append(pst.events, pst.currentEvent)}
        /\ line' # END_VEVENT => pst'.events = pst.events
        /\ (line' # BEGIN_VEVENT /\ ~pst.inEvent) => pst' = pst

\* Every optional field of an emitted record was set by a line read since
\* the last BEGIN:VEVENT of its block.
C11_NothingOlder ==
    \A k \in 1..Len(pst.events) :
        /\ k <= Len(emittedBlk)
        /\ pst.events[k].hasEnd => emittedBlk[k].lastEnd # "none"
        /\ pst.events[k].description # <<>> => emittedBlk[k].descriptionSeen
        /\ pst.events[k].location # <<>> => emittedBlk[k].locationSeen
        /\ pst.events[k].isAllDay # "undefined" => emittedBlk[k].lastStart # "none"

\* C11: a BEGIN:VEVENT read while inside a block throws away what the
\* unfinished block had accumulated (the accumulator is empty again, the
\* parser stays inside, nothing is emitted), so no property read before it
\* is in an emitted record; the END:VEVENT that follows emits at most one
\* record; an END:VEVENT or a property line read while outside changes
\* nothing.
C11_NestedBeginDiscards ==
    /\ []C11_NothingOlder
    /\ [][C11_Iteration]_vars

\* A record emitted from a block whose BEGIN:VEVENT replaced an unfinished
\* block that had read properties; a DTEND read before the nested
\* BEGIN:VEVENT would show as an end the block's own lines do not explain.
C11_Witness ==
    \E k \in 1..Len(pst.events) :
        /\ emittedBlk[k].nested /\ emittedBlk[k].droppedProps
        /\ ~pst.events[k].hasEnd

\* C12: no emitted record mixes an all-day start with a timed end or a
\* timed start with a date-only end: in every emitted record that has an
\* end, the last DTSTART and the last DTEND of the block were of the same
\* form (both VALUE=DATE or both date-time), and isAllDay is true exactly
\* when that form is VALUE=DATE, the DTEND line having set the flag too.
C12_NoMixedRecord ==
    \A k \in 1..Len(pst.events) :
        (k <= Len(emittedBlk) /\ pst.events[k].hasEnd) =>
            /\ emittedBlk[k].lastEnd = emittedBlk[k].lastStart
            /\ (pst.events[k].isAllDay = "true") <=> (emittedBlk[k].lastEnd = "date")
            /\ (pst.events[k].isAllDay = "false") <=> (emittedBlk[k].lastEnd = "datetime")

(* ------------------------------------------------------------------ *)
(* Properties of the pure functions (checked under SpecFn)             *)
(* ------------------------------------------------------------------ *)
\* The keys of the records of X, position by position.
KeysOf(X) == [k \in 1..Len(X) |-> generateEventKey(X[k])]

RECURSIVE FirstOccurrences(_, _, _)
\* The records among the first n of X (with keys K) that no earlier
\* record shares its key with, in the order of X.
FirstOccurrences(X, K, n) ==
    IF n = 0 THEN <<>>
    ELSE FirstOccurrences(X, K, n - 1)
             \o (IF \A j \in 1..(n - 1) : K[j] # K[n] THEN <<X[n]>> ELSE <<>>)

\* C2: removeDuplicateEvents keeps exactly the first record of each key,
\* in the order of the input, and applying it to its own result changes
\* nothing.
C2_DedupStableIdempotent ==
    "dedup" \in fdone =>
        /\ \A K \in {KeysOf(events)} : uniqueEvents = FirstOccurrences(events, K, Len(events))
        /\ removeDuplicateEvents(uniqueEvents) = uniqueEvents

\* The second record repeats the key of the first and is dropped, the
\* third is kept behind the first.
C2_Witness ==
    /\ "dedup" \in fdone
    /\ Len(events) = 3 /\ Len(uniqueEvents) = 2
    /\ generateEventKey(events[1]) = generateEventKey(events[2])
    /\ uniqueEvents = <<events[1], events[3]>>

RECURSIVE WithoutKeys(_, _, _)
\* The records among the first n of X whose key is not in K, in order.
WithoutKeys(X, K, n) ==
    IF n = 0 THEN <<>>
    ELSE WithoutKeys(X, K, n - 1)
             \o (IF generateEventKey(X[n]) \in K THEN <<>> ELSE <<X[n]>>)

KeyStandupJan5 == <<"2", "0", "2", "4", "-", "0", "1", "-", "0", "5", "|", "s", "t", "a", "n", "d", "u", "p">>

\* C3: filterEventsToCreate returns exactly the records whose key is not
\* in the existing-key set, in input order; with "2024-01-05|standup" in
\* the set no record of that key is in the result.
C3_FilterIsSubsequence ==
    "filter" \in fdone =>
        /\ eventsToCreate = WithoutKeys(events, existingKeys, Len(events))
        /\ KeyStandupJan5 \in existingKeys =>
               \A k \in 1..Len(eventsToCreate) :
                   /\ eventsToCreate[k] # StandupAllDay
                   /\ generateEventKey(eventsToCreate[k]) # KeyStandupJan5

\* Scenario B with a record that stays: the standup is excluded, another
\* record is kept.
C3_Witness ==
    /\ "filter" \in fdone
    /\ KeyStandupJan5 \in existingKeys
    /\ Len(events) = 3 /\ events[2] = StandupAllDay
    /\ eventsToCreate = <<events[1], events[3]>>

\* For each record of X: whether its start falls on a calendar day (the
\* Invalid Date falls on none), that local day, and the title after
\* lower-casing and trimming.
DayAndTitle(X) ==
    [k \in 1..Len(X) |->
        [onDay |-> X[k].start.valid,
         day |-> IF X[k].start.valid THEN LocalFields(X[k].start).day ELSE 0,
         title |-> Trim(ToLowerCase(X[k].title))]]

\* Starts on the same local calendar day, titles equal after lower-casing
\* and trimming.
SameDayAndTitle(a, b) == a.onDay /\ b.onDay /\ a.day = b.day /\ a.title = b.title

\* C5: two records have the same key exactly when their starts
\* fall on the same local calendar day and their titles are equal after
\* lower-casing and trimming; records that differ only in the time of day
\* are collapsed to one by removeDuplicateEvents, and filterEventsToCreate
\* excludes both when their key exists.
C5_KeyCoarsening ==
    \A key \in {KeysOf(events)}, same \in {DayAndTitle(events)},
       kept \in {DayAndTitle(uniqueEvents)}, left \in {DayAndTitle(eventsToCreate)} :
        /\ \A i, j \in 1..Len(events) :
              i # j => ((key[i] = key[j]) <=> SameDayAndTitle(same[i], same[j]))
        /\ "dedup" \in fdone =>
              \A i \in 1..Len(events) :
                  same[i].onDay =>
                      Cardinality({k \in 1..Len(uniqueEvents) :
                                      SameDayAndTitle(kept[k], same[i])}) = 1
        /\ "filter" \in fdone =>
              \A i \in 1..Len(events) :
                  key[i] \in existingKeys =>
                      \A k \in 1..Len(eventsToCreate) : ~SameDayAndTitle(left[k], same[i])

\* C8: for an empty sequence of records getEventDateRange gives no window
\* and getExistingCalendarEvents returns the empty key set without calling
\* calendar.getEvents; with an empty key set filterEventsToCreate returns
\* every record given to it.
C8_EmptyInput ==
    /\ ("existing" \in fdone /\ events = <<>>) =>
           /\ ~dateRange.has
           /\ existingKeys = {}
           /\ ~queried
    /\ ("filter" \in fdone /\ existingKeys = {}) => eventsToCreate = events

\* No records, a calendar that holds an event, both functions applied.
C8_Witness ==
    /\ {"existing", "filter"} \subseteq fdone
    /\ events = <<>> /\ calendar # <<>>
    /\ existingKeys = {} /\ eventsToCreate = <<>>

(* ------------------------------------------------------------------ *)
(* Properties of getEventDateRange (checked under SpecRange)           *)
(* ------------------------------------------------------------------ *)
\* The sequences that hold the records of evs in another order.
Reorderings(evs) ==
    {[k \in 1..Len(evs) |-> evs[f[k]]] :
        f \in {g \in [1..Len(evs) -> 1..Len(evs)] :
                  \A a, b \in 1..Len(evs) : a # b => g[a] # g[b]}}

\* a <= b on instants; nothing is ordered with the Invalid Date.
DateLE(a, b) == a.valid /\ b.valid /\ ~DateLess(b, a)

\* Local midnight of the day before the local day of d.
StartOfDayBefore(d) == MakeTimeValue(LocalFields(d).day - 1, 0 - LocalTZA)

\* The last millisecond of the day after the local day of d.
EndOfDayAfter(d) == MakeTimeValue(LocalFields(d).day + 1, MsPerDay - 1 - LocalTZA)

\* C13: for every non-empty sequence of records getEventDateRange returns
\* the window from the start of the day before the earliest start to the
\* end of the day after the latest start; the start of every record lies
\* inside the window; and the window is the same for every order of the
\* records.
C13_WindowCoversStarts ==
    ("range" \in fdone /\ events # <<>>) =>
        /\ dateRange.has
        /\ \A k \in 1..Len(events) :
               /\ DateLE(dateRange.start, events[k].start)
               /\ DateLE(events[k].start, dateRange.end)
        /\ \E lo, hi \in 1..Len(events) :
               /\ \A k \in 1..Len(events) :
                      /\ DateLE(events[lo].start, events[k].start)
                      /\ DateLE(events[k].start, events[hi].start)
               /\ dateRange.start = StartOfDayBefore(events[lo].start)
               /\ dateRange.end = EndOfDayAfter(events[hi].start)
        /\ \A other \in Reorderings(events) : getEventDateRange(other) = dateRange

(* ------------------------------------------------------------------ *)
(* Properties of the import run (checked under Spec)                   *)
(* ------------------------------------------------------------------ *)
\* A row with a title and a start value.
HasTitleAndStart(row) ==
    /\ row.title # <<>>
    /\ (row.start.kind = "date" \/ row.start.text # <<>>)

RECURSIVE RetryIndices(_, _)
\* The positions, among the first n data rows, of the rows with a title
\* and a start, in row order.
RetryIndices(rows, n) ==
    IF n = 0 THEN <<>>
    ELSE RetryIndices(rows, n - 1)
             \o (IF HasTitleAndStart(rows[n]) THEN <<n>> ELSE <<>>)

\* evs holds one record for each row of rows that has a title and a
\* start, in row order, with that row's title, flag and sheet row number.
ReconstructedFrom(evs, rows) ==
    LET idx == RetryIndices(rows, Len(rows))
    IN  /\ Len(evs) = Len(idx)
        /\ \A k \in 1..Len(idx) :
              /\ evs[k].title = rows[idx[k]].title
              /\ evs[k].rowIndex = idx[k] + 1
              /\ (evs[k].isAllDay = "true") <=> (rows[idx[k]].isAllDay = StrTRUE)

\* C6: in importIcsToCalendar the list handed to creation is the fresh
\* eligible records followed by all records reconstructed from the
\* ledger, in row order, and every one of them is attempted in the run,
\* also a ledger record whose key is in the existing-key set or equals the
\* key of a fresh record.
C6_RetryMerge ==
    entry = "import" =>
        /\ pc \in {"merged", "processing", "done"} =>
               /\ toProcess = eventsToCreate \o errorEvents
               /\ sheetRead => ReconstructedFrom(errorEvents, ledgerAtRead)
        /\ pc = "done" => attempted = toProcess

\* A run that attempted a fresh record and then a ledger record of the
\* same key.
C6_Witness ==
    /\ entry = "import" /\ pc = "done"
    /\ \E i, j \in 1..Len(attempted) :
          /\ i < j
          /\ attempted[i].rowIndex = 0
          /\ attempted[j].rowIndex > 0
          /\ generateEventKey(attempted[i]) = generateEventKey(attempted[j])

\* The rows recordError writes for a sequence of failed events.
RowsOf(evs) == [k \in 1..Len(evs) |-> ErrorRow(evs[k], StrApiError)]

\* C7: when processEventsInBatches returns, the data rows of
\* the ledger are exactly the records whose creation failed during this
\* invocation, one row per failure in processing order.
C7_LedgerIsExactlyFailures ==
    pc = "done" => ledger = RowsOf(failedEvents)

\* What getErrorEvents returned, once importIcsToCalendar holds it.
C9_Returned ==
    (entry = "import" /\ pc \in {"merged", "processing", "done"}) =>
        /\ sheetRead => ReconstructedFrom(errorEvents, ledgerAtRead)
        /\ ~sheetRead => errorEvents = <<>>
        /\ (sheetRead /\ ledgerAtRead = <<RowSync>>) =>
               /\ Len(errorEvents) = 1
               /\ errorEvents[1].title = StrSync
               /\ errorEvents[1].isAllDay = "false"
               /\ ~errorEvents[1].hasEnd
               /\ errorEvents[1].start
                      = MakeTimeValue(DaysFromCivil(2024, 2, 1), 10 * 3600000 - LocalTZA)

\* C9: getErrorEvents never raises to its caller; a row without a title or
\* a start is skipped and every other row is returned, in row order; a
\* failure of the ledger read yields the empty list; and the row ("Sync",
\* "2024-02-01T10:00:00", "", "FALSE", "", "", "API error") yields one
\* record with title "Sync", isAllDay false and no end.
C9_ErrorEventsTolerant ==
    /\ []C9_Returned
    /\ [][(entry = "import" /\ pc = "filtered") => pc' = "merged"]_vars

\* A read that skipped the row without a title and returned the usable
\* row after it.
C9_Witness ==
    /\ entry = "import" /\ pc = "merged" /\ sheetRead
    /\ ledgerAtRead = <<RowNoTitle, RowStandup>>
    /\ Len(errorEvents) = 1
    /\ errorEvents[1].title = StrStandup /\ errorEvents[1].rowIndex = 3

\* The record of a ledger row was created in the calendar by the run that
\* just ended, or a row of the ledger holds it again.
RecordKept(row) ==
    \/ \E k \in 1..Len(calendar) :
           /\ k > Len(calendar) - result.created
           /\ calendar[k].title = row.title
           /\ calendar[k].start = NewDate(row.start)
    \/ \E k \in 1..Len(ledger) :
           /\ ledger[k].title = row.title
           /\ NewDate(ledger[k].start) = NewDate(row.start)

\* C14: no previously failed record is lost: when importIcsToCalendar or
\* testImport ends, every record (row with a title and a start) that was
\* in the ledger when it was entered has been created in the calendar or
\* is in the ledger again, also when the ledger could not be read.
C14_NoFailedRecordLost ==
    (entry \in {"import", "test"} /\ RunEnded) =>
        \A k \in 1..Len(ledgerAtStart) :
            RowUsable(ledgerAtStart[k]) => RecordKept(ledgerAtStart[k])

\* C15: importIcsToCalendar never creates two calendar events of one
\* reconciliation key: among the entries the calendar gained since the
\* first run, no two have the same key, also when a record that failed
\* earlier is re-parsed from the file and replayed from the ledger.
C15_NoDuplicateCreation ==
    entry = "import" =>
        \A i, j \in (preexisting + 1)..Len(calendar) :
            i # j => ExistingKey(calendar[i]) # ExistingKey(calendar[j])

\* C17: whenever testImport has returned, on the normal path and on the
\* paths where an exception was caught, CONFIG.BATCH_SIZE is the value it
\* had when testImport was entered.  (BATCH_SIZE is the only field of
\* CONFIG the program ever assigns.)
C17_BatchSizeRestored ==
    (entry = "test" /\ pc \in {"tested", "caught"}) => batchSize = originalBatchSize

(* ------------------------------------------------------------------ *)
(* Properties of processEventsInBatches (checked under SpecBatch)      *)
(* ------------------------------------------------------------------ *)
\* The attempts so far are the first records of the list, in order, each
\* once, and the counters of result count them.
C16_Counted ==
    pc \in {"processing", "done"} =>
        /\ Len(attempted) <= Len(toProcess)
        /\ attempted = SubSeq(toProcess, 1, Len(attempted))
        /\ result.created + result.errors = Len(attempted)
        /\ result.errors = Len(failedEvents)
        /\ result.skipped = 0
        /\ pc = "done" =>
               /\ attempted = toProcess
               /\ result.created + result.errors = Len(toProcess)

\* A turn of the forEach attempts the record after the last one
\* attempted, whether or not an earlier attempt failed.
C16_Turn ==
    (pc = "processing" /\ pc' = "processing") =>
        /\ Len(attempted) < Len(toProcess)
        /\ attempted' = Append(attempted, toProcess[Len(attempted) + 1])

\* C16: for every list and every positive BATCH_SIZE,
\* processEventsInBatches attempts each record exactly once, in the order
\* of the list; a failed attempt neither stops nor repeats the attempts
\* after it; on return created + errors is the length of the list,
\* skipped is 0 and errors is the number of failed attempts; and the loop
\* ends.
C16_EachOnceAndTerminates ==
    /\ []C16_Counted
    /\ [][C16_Turn]_vars
    /\ (pc = "processing") ~> (pc = "done")

\* Three records in batches of two: the first attempt failed, the two
\* after it, one in each batch, succeeded.
C16_Witness ==
    /\ entry = "none" /\ pc = "done"
    /\ Len(toProcess) = 3 /\ batchSize = 2
    /\ failedEvents = <<toProcess[1]>>
    /\ result = [created |-> 2, skipped |-> 0, errors |-> 1]

====
